---- MODULE Spec2Model ----
(***************************************************************************)
(* Model of the llm-doc-highlighting demo front end.                       *)
(*                                                                         *)
(*   Part A  demo-app/app.js   cache preparation (ensurePrepared,          *)
(*           prepareCache, refreshStatus, askQuestion)                     *)
(*   Part B  demo-app/eval.js  pure ground-truth resolution                *)
(*           (normalizeBoxes, dedupeBoxes, resolveGtForExample)            *)
(*   Part C  demo-app/eval.js  correction cache and reviewer saves         *)
(*           (loadCorrectionsForDoc, saveCorrection, click handlers)       *)
(*                                                                         *)
(* The browser runs one task at a time.  An action of this model is one    *)
(* task: a handler or a continuation that runs from the delivery of a      *)
(* network response up to the next await of a network request.  Awaits of  *)
(* already settled promises only queue microtasks, which run before the    *)
(* next task, so they do not end an action.                                *)
(***************************************************************************)
EXTENDS Integers, Sequences, FiniteSets, TLC

VARIABLES
  \* ---- Part A: app.js ----
  cacheReady,      \* app.js:35
  preparing,       \* app.js:36
  preparePromise,  \* app.js:37; 0 is null, k > 0 the promise of execution k
  systemStatus,    \* text of the system status chip
  runs,            \* the prepareCache executions started so far
  waiters,         \* callers awaiting a promise returned by ensurePrepared
  settled,         \* history: how each awaited promise settled for its caller
  statusReqs,      \* GET /api/status requests in flight
  startupPc,       \* the page-start refreshStatus().then(...) chain
  askPc,           \* position of askQuestion
  asks,            \* number of Ask clicks so far
  srvReady,        \* backend: the preprocess cache exists
  calls,           \* history: number of ensurePrepared calls
  lastReturn,      \* history: what the last ensurePrepared call returned
  \* ---- Part B: eval.js, ground-truth resolution ----
  rItem,           \* the EvaluationItem being rendered
  rHas,            \* a correction record was found for it
  rEntry,          \* that record (meaningful when rHas)
  rOut,            \* currentGtResolved as renderExample leaves it
  rPc,             \* "input" before renderExample ran, "done" after
  \* ---- Part C: eval.js, correction cache and reviewer saves ----
  srvItems,        \* backend: the persisted correction list of each document
  tasks,           \* suspended async calls, each awaiting one HTTP response
  runPc,           \* "boot" until loadRun has built the document index
  correctionsCache,   \* eval.js:71
  reviewStatsByDoc,   \* eval.js:75
  reviewStatsLoading, \* eval.js:76
  exReviewed,      \* the reviewed flag computeReviewStatsForDoc puts on examples
  gtSaveInFlight,  \* eval.js:74
  cur,             \* currentExample, currentGtResolved, currentHasCorrection,
                   \* currentSavedNote, pendingDecision (eval.js:70-79)
  dom,             \* the review controls: inputs, buttons, status note
  userEvents,      \* history: input events of the reviewer handled so far
  loadLog,         \* history: the last loadCorrectionsForDoc that did a GET,
                   \* and the document of the last loadExamplesForDoc call
  \* ---- Part D: eval.js, box deduplication ----
  dBoxes,          \* a box list X handed to dedupeBoxes
  dPerm,           \* a permutation of the positions of X
  dOut,            \* dedupeBoxes of X, of the permuted X and of its own result
  dPc,             \* "input" before dedupeBoxes ran, "done" after
  \* ---- Part E: helper functions, one call of one function ----
  gFn,             \* the function called
  gArg,            \* its argument
  gOut,            \* what it returned
  gPc,             \* "input" before the call, "done" after
  \* ---- Part F: the GT corrections tool ----
  toolSrv,         \* backend: the persisted correction list of each document
  toolState,       \* state.docId, state.items, state.selectedKey, the save
                   \* status line, and the position of loadDocs
  toolTasks,       \* suspended loadDoc and saveCorrections calls
  toolLog,         \* history: the document whose load filled state.items
  toolEvents,      \* history: input events of the reviewer handled so far
  \* ---- Part G: the viewer handshake of eval.js ----
  viewerSdk,       \* the viewer: the document it has loaded, loads in flight
  viewerState,     \* eval.js:64-66 currentDocId, pendingDocId, pendingOverlay
  viewerLog,       \* history: the last overlay drawn and the document under it
  viewerEvents     \* history: renderExample calls so far

varsA == <<cacheReady, preparing, preparePromise, systemStatus, runs, waiters,
           settled, statusReqs, startupPc, askPc, asks, srvReady, calls,
           lastReturn>>

varsB == <<rItem, rHas, rEntry, rOut, rPc>>

varsC == <<srvItems, tasks, runPc, correctionsCache, reviewStatsByDoc,
           reviewStatsLoading, exReviewed, gtSaveInFlight, cur, dom,
           userEvents, loadLog>>

varsD == <<dBoxes, dPerm, dOut, dPc>>

varsE == <<gFn, gArg, gOut, gPc>>

varsF == <<toolSrv, toolState, toolTasks, toolLog, toolEvents>>

varsG == <<viewerSdk, viewerState, viewerLog, viewerEvents>>

vars == <<varsA, varsB, varsC, varsD, varsE, varsF, varsG>>

\* What the actions of one part leave alone.
restA == <<varsB, varsC, varsD, varsE, varsF, varsG>>
restB == <<varsA, varsC, varsD, varsE, varsF, varsG>>
restC == <<varsA, varsB, varsD, varsE, varsF, varsG>>
restD == <<varsA, varsB, varsC, varsE, varsF, varsG>>
restE == <<varsA, varsB, varsC, varsD, varsF, varsG>>
restF == <<varsA, varsB, varsC, varsD, varsE, varsG>>
restG == <<varsA, varsB, varsC, varsD, varsE, varsF>>

\* ------------------------------------------------------------------------
\* Bounds
\* ------------------------------------------------------------------------
MaxAsk == 3

\* ------------------------------------------------------------------------
\* Part A: app.js
\* ------------------------------------------------------------------------
InFlight(k) == runs[k].pc \in {"post", "refresh"}

InFlightRuns == {k \in 1..Len(runs) : InFlight(k)}

\* updateSystemStatus: the chip text for a status record.  The key, rails,
\* OCR and model fields of the status payload are healthy in this model.
updateSystemStatus(isPreparing, isCacheReady) ==
  IF isPreparing THEN "preparing..."
  ELSE IF ~isCacheReady THEN "needs attention"
  ELSE "ready"

\* ensurePrepared, mutated: the in-flight marker is not consulted.
ensurePreparedNoMarker(cr, pp) ==
  IF cr THEN "resolved" ELSE "start"

\* ensurePrepared: which of its three returns is taken.
ensurePreparedBranch(cr, pp) ==
  IF cr THEN "resolved"
  ELSE IF pp # 0 THEN "join"
  ELSE "start"

\* The .finally callback of ensurePrepared, mutated: cleared on success only.
markerAfterSettleOnSuccess(pp, ok) == IF ok THEN 0 ELSE pp

\* The .finally callback of ensurePrepared: the marker after a settle.
markerAfterSettle(pp, ok) == 0

\* refreshStatus starts: one more GET /api/status in flight.
StatusReq(who, k) == [who |-> who, k |-> k, resp |-> "none"]

\* The callers whose awaited promise k settles, and what they do next:
\* askQuestion continues with the ask POST on success and with its catch
\* block (refreshStatus) on failure; the page-start caller swallows both.
SettleWaiters(k, ok, reqs) ==
  LET mine == {w \in waiters : w.promise = k}
      askWaits == \E w \in mine : w.who = "ask"
  IN  /\ waiters' = waiters \ mine
      /\ settled' = settled \cup
            {[who |-> w.who, promise |-> k, ok |-> ok] : w \in mine}
      /\ askPc' = IF askWaits THEN (IF ok THEN "ask" ELSE "status2") ELSE askPc
      /\ statusReqs' = IF askWaits /\ ~ok
                         THEN reqs \cup {StatusReq("ask2", 0)}
                         ELSE reqs

\* ensurePrepared() called by `who` in a task whose refreshStatus has just
\* set cacheReady to cr and the chip to chip, leaving the requests reqs.
EnsurePrepared(who, cr, chip, reqs) ==
  LET branch == ensurePreparedBranch(cr, preparePromise) IN
  /\ calls' = calls + 1
  /\ cacheReady' = cr
  /\ statusReqs' = reqs
  /\ CASE branch = "resolved" ->
            /\ lastReturn' = 0
            /\ settled' = settled \cup {[who |-> who, promise |-> 0, ok |-> TRUE]}
            /\ askPc' = IF who = "ask" THEN "ask" ELSE askPc
            /\ systemStatus' = chip
            /\ UNCHANGED <<preparePromise, runs, preparing, waiters>>
       [] branch = "join" ->
            /\ lastReturn' = preparePromise
            /\ waiters' = waiters \cup {[who |-> who, promise |-> preparePromise]}
            /\ askPc' = IF who = "ask" THEN "prep" ELSE askPc
            /\ systemStatus' = chip
            /\ UNCHANGED <<preparePromise, runs, preparing, settled>>
       [] branch = "start" ->
            \* prepareCache runs up to its POST /api/preprocess
            /\ runs' = Append(runs, [pc |-> "post", resp |-> "none"])
            /\ preparePromise' = Len(runs) + 1
            /\ lastReturn' = Len(runs) + 1
            /\ preparing' = TRUE
            /\ systemStatus' = updateSystemStatus(TRUE, cr)
            /\ waiters' = waiters \cup {[who |-> who, promise |-> Len(runs) + 1]}
            /\ askPc' = IF who = "ask" THEN "prep" ELSE askPc
            /\ UNCHANGED settled

\* The body of refreshStatus after its GET settled with resp: the chip.
refreshStatusChip(resp) ==
  IF resp = "fail" THEN "status unavailable"
  ELSE updateSystemStatus(preparing, resp = "ready")

\* The backend answers a GET /api/status.
SrvStatus ==
  \E r \in statusReqs :
    /\ r.resp = "none"
    /\ \E out \in {IF srvReady THEN "ready" ELSE "notready", "fail"} :
         statusReqs' = (statusReqs \ {r}) \cup {[r EXCEPT !.resp = out]}
    /\ UNCHANGED <<cacheReady, preparing, preparePromise, systemStatus, runs,
                   waiters, settled, startupPc, askPc, asks, srvReady, calls,
                   lastReturn>>
    /\ UNCHANGED restA

\* The backend runs POST /api/preprocess of execution k.
SrvPreprocess ==
  \E k \in 1..Len(runs) :
    /\ runs[k].pc = "post" /\ runs[k].resp = "none"
    /\ \E ok \in BOOLEAN :
         /\ runs' = [runs EXCEPT ![k].resp = IF ok THEN "ok" ELSE "fail"]
         /\ srvReady' = (srvReady \/ ok)
    /\ UNCHANGED <<cacheReady, preparing, preparePromise, systemStatus,
                   waiters, settled, statusReqs, startupPc, askPc, asks, calls,
                   lastReturn>>
    /\ UNCHANGED restA

\* refreshStatus resumes in the page-start chain; its then callback calls
\* ensurePrepared when the status is missing or reports no cache.
StartupStatus ==
  \E r \in statusReqs :
    /\ r.who = "startup" /\ r.resp # "none"
    /\ startupPc' = "done"
    /\ LET cr == (r.resp = "ready")
           reqs == statusReqs \ {r}
       IN IF r.resp = "ready"
            THEN /\ cacheReady' = cr
                 /\ systemStatus' = refreshStatusChip(r.resp)
                 /\ statusReqs' = reqs
                 /\ UNCHANGED <<preparing, preparePromise, runs, waiters,
                                settled, askPc, calls, lastReturn>>
            ELSE EnsurePrepared("startup", cr, refreshStatusChip(r.resp), reqs)
    /\ UNCHANGED <<asks, srvReady>>
    /\ UNCHANGED restA

\* btnAsk click: askQuestion runs up to its first refreshStatus.
AskClick ==
  /\ askPc = "idle"
  /\ asks < MaxAsk
  /\ asks' = asks + 1
  /\ askPc' = "status1"
  /\ statusReqs' = statusReqs \cup {StatusReq("ask1", 0)}
  /\ UNCHANGED <<cacheReady, preparing, preparePromise, systemStatus, runs,
                 waiters, settled, startupPc, srvReady, calls, lastReturn>>
  /\ UNCHANGED restA

\* refreshStatus resumes in askQuestion, which then awaits ensurePrepared
\* or goes straight to the ask POST.
AskStatus ==
  \E r \in statusReqs :
    /\ r.who = "ask1" /\ r.resp # "none"
    /\ LET cr == (r.resp = "ready")
           reqs == statusReqs \ {r}
       IN IF r.resp = "ready"
            THEN /\ cacheReady' = cr
                 /\ systemStatus' = refreshStatusChip(r.resp)
                 /\ statusReqs' = reqs
                 /\ askPc' = "ask"
                 /\ UNCHANGED <<preparing, preparePromise, runs, waiters,
                                settled, calls, lastReturn>>
            ELSE EnsurePrepared("ask", cr, refreshStatusChip(r.resp), reqs)
    /\ UNCHANGED <<startupPc, asks, srvReady>>
    /\ UNCHANGED restA

\* The ask POST settles (either way); askQuestion refreshes the status.
AskAnswered ==
  /\ askPc = "ask"
  /\ askPc' = "status2"
  /\ statusReqs' = statusReqs \cup {StatusReq("ask2", 0)}
  /\ UNCHANGED <<cacheReady, preparing, preparePromise, systemStatus, runs,
                 waiters, settled, startupPc, asks, srvReady, calls,
                 lastReturn>>
  /\ UNCHANGED restA

\* The closing refreshStatus of askQuestion resumes; the button is enabled.
AskDone ==
  \E r \in statusReqs :
    /\ r.who = "ask2" /\ r.resp # "none"
    /\ askPc = "status2"
    /\ cacheReady' = (r.resp = "ready")
    /\ systemStatus' = refreshStatusChip(r.resp)
    /\ statusReqs' = statusReqs \ {r}
    /\ askPc' = "idle"
    /\ UNCHANGED <<preparing, preparePromise, runs, waiters, settled,
                   startupPc, asks, srvReady, calls, lastReturn>>
    /\ UNCHANGED restA

\* prepareCache resumes after a successful POST: cacheReady is set and the
\* function awaits refreshStatus.
PreprocessOk ==
  \E k \in 1..Len(runs) :
    /\ runs[k].pc = "post" /\ runs[k].resp = "ok"
    /\ runs' = [runs EXCEPT ![k].pc = "refresh"]
    /\ cacheReady' = TRUE
    /\ statusReqs' = statusReqs \cup {StatusReq("prep", k)}
    /\ UNCHANGED <<preparing, preparePromise, systemStatus, waiters, settled,
                   startupPc, askPc, asks, srvReady, calls, lastReturn>>
    /\ UNCHANGED restA

\* prepareCache resumes after a failed POST: it rethrows, its finally block
\* clears `preparing`, the .finally callback clears the marker and the
\* awaiting callers are rejected.
PreprocessFail ==
  \E k \in 1..Len(runs) :
    /\ runs[k].pc = "post" /\ runs[k].resp = "fail"
    /\ runs' = [runs EXCEPT ![k].pc = "fail"]
    /\ preparing' = FALSE
    /\ preparePromise' = markerAfterSettle(preparePromise, FALSE)
    /\ SettleWaiters(k, FALSE, statusReqs)
    /\ UNCHANGED <<cacheReady, systemStatus, startupPc, asks, srvReady, calls,
                   lastReturn>>
    /\ UNCHANGED restA

\* refreshStatus resumes inside prepareCache, which then returns true.
PrepareDone ==
  \E r \in statusReqs :
    /\ r.who = "prep" /\ r.resp # "none"
    /\ runs[r.k].pc = "refresh"
    /\ cacheReady' = (r.resp = "ready")
    /\ systemStatus' = refreshStatusChip(r.resp)
    /\ runs' = [runs EXCEPT ![r.k].pc = "ok"]
    /\ preparing' = FALSE
    /\ preparePromise' = markerAfterSettle(preparePromise, TRUE)
    /\ SettleWaiters(r.k, TRUE, statusReqs \ {r})
    /\ UNCHANGED <<startupPc, asks, srvReady, calls, lastReturn>>
    /\ UNCHANGED restA


\* ------------------------------------------------------------------------
\* Part B: eval.js, boxes and ground-truth resolution
\* ------------------------------------------------------------------------
\* Coordinates are integers counting thousandths of a page unit, so that the
\* rounding to two decimals in normalizeBoxes is visible.  NaN stands for a
\* value that Number() maps to NaN.
NaN == -999999

\* Math.round(num * 100) / 100, and 0 for a non-finite value.
roundCoord(v) == IF v = NaN THEN 0 ELSE ((v + 5) \div 10) * 10

\* Collation ranks of the characters of a serialized box, in the order
\* localeCompare gives them: - , . [ ] 0..9
RankMinus == 1
RankComma == 2
RankDot == 3
RankOpen == 4
RankClose == 5
RankZero == 10

RECURSIVE decDigits(_)
\* The decimal digits of a natural number, as ranks.
decDigits(n) ==
  IF n < 10 THEN <<RankZero + n>>
  ELSE Append(decDigits(n \div 10), RankZero + (n % 10))

\* JSON.stringify of a normalized coordinate (a multiple of 0.01).
jsonNumber(v) ==
  LET h == v \div 10
      a == IF h < 0 THEN 0 - h ELSE h
      whole == decDigits(a \div 100)
      d1 == (a % 100) \div 10
      d2 == a % 10
      frac == IF a % 100 = 0 THEN <<>>
              ELSE IF d2 = 0 THEN <<RankDot, RankZero + d1>>
              ELSE <<RankDot, RankZero + d1, RankZero + d2>>
  IN  (IF h < 0 THEN <<RankMinus>> ELSE <<>>) \o whole \o frac

RECURSIVE jsonItems(_)
jsonItems(b) ==
  IF Len(b) = 0 THEN <<>>
  ELSE IF Len(b) = 1 THEN jsonNumber(b[1])
  ELSE jsonNumber(b[1]) \o <<RankComma>> \o jsonItems(Tail(b))

\* JSON.stringify of a box.
jsonBox(b) == <<RankOpen>> \o jsonItems(b) \o <<RankClose>>

RECURSIVE lexLess(_, _)
\* a.localeCompare(b) < 0 on serialized boxes.
lexLess(s, t) ==
  IF Len(t) = 0 THEN FALSE
  ELSE IF Len(s) = 0 THEN TRUE
  ELSE IF s[1] # t[1] THEN s[1] < t[1]
  ELSE lexLess(Tail(s), Tail(t))

RECURSIVE insertBox(_, _)
\* Stable insertion of b into a list sorted by serialization.
insertBox(sorted, b) ==
  IF Len(sorted) = 0 THEN <<b>>
  ELSE IF lexLess(jsonBox(b), jsonBox(sorted[1]))
    THEN <<b>> \o sorted
    ELSE <<sorted[1]>> \o insertBox(Tail(sorted), b)

RECURSIVE sortBoxes(_)
sortBoxes(bs) ==
  IF Len(bs) = 0 THEN <<>>
  ELSE insertBox(sortBoxes(SubSeq(bs, 1, Len(bs) - 1)), bs[Len(bs)])

\* normalizeBoxes, mutated: the rounded boxes are returned unsorted.
normalizeBoxesUnsorted(bs) ==
  [i \in 1..Len(bs) |-> [j \in 1..Len(bs[i]) |-> roundCoord(bs[i][j])]]

\* normalizeBoxes: round every coordinate, sort by serialization.
normalizeBoxes(bs) ==
  sortBoxes([i \in 1..Len(bs) |-> [j \in 1..Len(bs[i]) |-> roundCoord(bs[i][j])]])

RECURSIVE dropSeen(_, _)
dropSeen(bs, seen) ==
  IF Len(bs) = 0 THEN <<>>
  ELSE IF bs[1] \in seen THEN dropSeen(Tail(bs), seen)
  ELSE <<bs[1]>> \o dropSeen(Tail(bs), seen \cup {bs[1]})

\* dedupeBoxes: normalize, then keep the first occurrence of each box.
dedupeBoxes(bs) == dropSeen(normalizeBoxes(bs), {})

RECURSIVE cleanWordBoxes(_)
\* cleanWordBoxes: keep the 4-number boxes, as they are.
cleanWordBoxes(bs) ==
  IF Len(bs) = 0 THEN <<>>
  ELSE IF Len(bs[1]) # 4 \/ (\E j \in 1..Len(bs[1]) : bs[1][j] = NaN)
    THEN cleanWordBoxes(Tail(bs))
    ELSE <<bs[1]>> \o cleanWordBoxes(Tail(bs))

RECURSIVE wordBoxesOf(_)
\* (ex.expected_words || []).map((w) => w.box).filter(Boolean)
wordBoxesOf(words) ==
  IF Len(words) = 0 THEN <<>>
  ELSE IF words[1].hasBox
    THEN <<words[1].box>> \o wordBoxesOf(Tail(words))
    ELSE wordBoxesOf(Tail(words))

\* A correction record.  exid is links.eval_example_id, srcMethod is
\* source.method, linkMethod is links.method; "" is an absent or empty
\* string field; hasBbox and hasWordBoxes tell whether bbox and word_boxes
\* are present (an empty word_boxes array is present).
Rec(itemId, exid, label, st, value, hasBbox, bbox, hasWb, wbs, sm, lm, notes) ==
  [item_id |-> itemId, exid |-> exid, field_label |-> label, gt_status |-> st,
   value |-> value, hasBbox |-> hasBbox, bbox |-> bbox,
   hasWordBoxes |-> hasWb, word_boxes |-> wbs,
   srcMethod |-> sm, linkMethod |-> lm, notes |-> notes]

\* String(...).toLowerCase() on the status strings of the model.
lowerStatus(st) ==
  CASE st = "Exclude" -> "exclude"
    [] st = "USE_DATASET" -> "use_dataset"
    [] OTHER -> st

ExcludedValue == "Excluded from scoring"

\* resolveGtForExample, lines 254-257, mutated: the content of the record is
\* looked at before its gt_status.
gtStatusOfContentFirst(c) ==
  IF c.value # "" \/ c.hasBbox \/ c.hasWordBoxes THEN "use_correction"
  ELSE IF lowerStatus(c.gt_status) # "" THEN lowerStatus(c.gt_status)
  ELSE "use_dataset"

\* resolveGtForExample, line 256, mutated: word_boxes is not looked at.
gtStatusOfValueOrBbox(c) ==
  IF lowerStatus(c.gt_status) # "" THEN lowerStatus(c.gt_status)
  ELSE IF c.value # "" \/ c.hasBbox THEN "use_correction"
  ELSE "use_dataset"

\* resolveGtForExample: the status of a present record, inferred from the
\* presence of value, bbox or word_boxes when gt_status is missing.
gtStatusOf(c) ==
  LET st == lowerStatus(c.gt_status) IN
  IF st # "" THEN st
  ELSE IF c.value # "" \/ c.hasBbox \/ c.hasWordBoxes THEN "use_correction"
  ELSE "use_dataset"

\* resolveGtForExample, dataset branch, mutated: the fallback carries no
\* boxes.
datasetGtNoBoxes(ex, noteText) ==
  [status |-> "use_dataset", source |-> "dataset", decision |-> "dataset",
   value |-> ex.expected_answer, boxes |-> <<>>,
   note |-> [text |-> noteText, method |-> ""]]

\* resolveGtForExample, dataset branch, mutated: boxes are not deduplicated.
datasetGtRawBoxes(ex, noteText) ==
  [status |-> "use_dataset", source |-> "dataset", decision |-> "dataset",
   value |-> ex.expected_answer, boxes |-> wordBoxesOf(ex.expected_words),
   note |-> [text |-> noteText, method |-> ""]]

\* resolveGtForExample: the result of its three dataset branches.
datasetGt(ex, noteText) ==
  [status |-> "use_dataset", source |-> "dataset", decision |-> "dataset",
   value |-> ex.expected_answer,
   boxes |-> dedupeBoxes(wordBoxesOf(ex.expected_words)),
   note |-> [text |-> noteText, method |-> ""]]

\* resolveGtForExample, exclude branch, mutated: the record's boxes survive.
excludedGtKeepsBoxes(c) ==
  [status |-> "exclude", source |-> "excluded", decision |-> "exclude",
   value |-> ExcludedValue,
   boxes |-> cleanWordBoxes(IF c.hasWordBoxes THEN c.word_boxes ELSE <<>>),
   note |-> [text |-> "Excluded from scoring (both wrong).", method |-> ""]]

\* resolveGtForExample: the result of its exclude branch.
excludedGt(c) ==
  [status |-> "exclude", source |-> "excluded", decision |-> "exclude",
   value |-> ExcludedValue, boxes |-> <<>>,
   note |-> [text |-> "Excluded from scoring (both wrong).", method |-> ""]]

\* resolveGtForExample, lines 278-280, mutated: the single bbox is preferred
\* to the word boxes.
correctionBoxesBboxFirst(c) ==
  LET firstNonEmpty(singleBox, wordBoxes) ==
        IF Len(singleBox) > 0 THEN singleBox ELSE wordBoxes
  IN firstNonEmpty(
       cleanWordBoxes(IF c.hasBbox THEN <<c.bbox>> ELSE <<>>),
       cleanWordBoxes(IF c.hasWordBoxes THEN c.word_boxes ELSE <<>>))

\* resolveGtForExample, lines 278-280: the cleaned word boxes, else the
\* cleaned single bbox.
correctionBoxes(c) ==
  LET firstNonEmpty(wordBoxes, singleBox) ==
        IF Len(wordBoxes) > 0 THEN wordBoxes ELSE singleBox
  IN firstNonEmpty(
       cleanWordBoxes(IF c.hasWordBoxes THEN c.word_boxes ELSE <<>>),
       cleanWordBoxes(IF c.hasBbox THEN <<c.bbox>> ELSE <<>>))

\* resolveGtForExample, line 283, mutated: a boxless correction is accepted.
missingBoxesNever(boxes) == FALSE

\* resolveGtForExample, line 283: if (!boxes.length)
missingBoxes(boxes) == Len(boxes) = 0

\* resolveGtForExample, line 282: source.method, else links.method, else
\* "correction".
correctionMethod(c) ==
  IF c.srcMethod # "" THEN c.srcMethod
  ELSE IF c.linkMethod # "" THEN c.linkMethod
  ELSE "correction"

\* resolveGtForExample, line 296: the decision tag of a method.
decisionOf(method) ==
  IF method = "raw" THEN "raw"
  ELSE IF method = "indexed" THEN "indexed" ELSE "custom"

\* resolveGtForExample(ex, correctionEntry); has = FALSE is a null entry.
resolveGtForExample(ex, has, c) ==
  IF ~has THEN datasetGt(ex, "Using dataset ground truth.")
  ELSE
    LET value == IF c.value # "" THEN c.value ELSE ex.expected_answer
        corrected(boxes, method) ==
          [status |-> "use_correction", source |-> method,
           decision |-> decisionOf(method),
           value |-> value, boxes |-> boxes,
           note |-> [text |-> "Using corrected GT from", method |-> method]]
        resolved(status, boxes) ==
          IF status = "exclude" THEN excludedGt(c)
          ELSE IF status = "use_dataset" \/ missingBoxes(boxes) THEN
            datasetGt(ex, IF status = "use_dataset"
                            THEN "Using dataset ground truth."
                            ELSE "Correction missing boxes; falling back to dataset GT.")
          ELSE corrected(boxes, correctionMethod(c))
    IN resolved(gtStatusOf(c), correctionBoxes(c))

\* renderExample, lines 1173-1181: resolve and stamp the review flag.
renderResolved(ex, has, c) ==
  LET stamped(gt) ==
        [status |-> gt.status, source |-> gt.source,
         decision |-> IF has THEN gt.decision ELSE "",
         value |-> gt.value, boxes |-> gt.boxes,
         note |-> IF has THEN gt.note
                  ELSE [text |-> "No decision saved yet. Choose a decision or mark reviewed.",
                        method |-> ""],
         reviewed |-> has]
  IN stamped(resolveGtForExample(ex, has, c))

\* ---- the inputs of the resolution check ----
MaxWords == 2

B1 == <<0, 0, 10000, 10000>>
B1n == <<4, 0, 10004, 10000>>
B2 == <<12000, 0, 22000, 10000>>
B3 == <<0, 0, 30000, 10000>>
BadArity == <<0, 0, 10000>>
BadNaN == <<0, NaN, 10000, 10000>>

SeqsUpTo(S, n) == UNION {[1..k -> S] : k \in 0..n}

Word(has, box) == [text |-> "w", hasBox |-> has, box |-> box]

ResolveWords ==
  {Word(TRUE, B1), Word(TRUE, B1n), Word(TRUE, B2), Word(TRUE, BadNaN),
   Word(FALSE, <<>>)}

Item(id, doc, q, answer, words) ==
  [id |-> id, doc_id |-> doc, question |-> q, expected_answer |-> answer,
   expected_words |-> words]

ResolveItems ==
  {Item("e1", "d1", "Name:", a, ws) :
     a \in {"", "Jane Smith"}, ws \in SeqsUpTo(ResolveWords, MaxWords)}

NoRec == Rec("", "", "", "", "", FALSE, <<>>, FALSE, <<>>, "", "", "")

ResolveEntries ==
  {Rec("e1", "e1", "Name:", st, v, bb[1], bb[2], wb[1], wb[2], m[1], m[2], "") :
     st \in {"", "use_dataset", "use_correction", "exclude", "Exclude"},
     v \in {"", "Jane S."},
     bb \in {<<FALSE, <<>>>>, <<TRUE, B3>>, <<TRUE, BadArity>>},
     wb \in {<<FALSE, <<>>>>, <<TRUE, <<>>>>, <<TRUE, <<B1, B2>>>>,
             <<TRUE, <<BadNaN>>>>},
     m \in {<<"", "">>, <<"raw", "raw">>, <<"", "indexed">>, <<"cvat", "">>,
            <<"cvat", "raw">>, <<"raw", "">>}}

NoGt ==
  [status |-> "", source |-> "", decision |-> "", value |-> "",
   boxes |-> <<>>, note |-> [text |-> "", method |-> ""], reviewed |-> FALSE]

InitResolve ==
  /\ rItem \in ResolveItems
  /\ rHas \in BOOLEAN
  /\ rEntry \in (IF rHas THEN ResolveEntries ELSE {NoRec})
  /\ rOut = NoGt
  /\ rPc = "input"

\* renderExample resolves the ground truth of the item.
RenderResolve ==
  /\ rPc = "input"
  /\ rOut' = renderResolved(rItem, rHas, rEntry)
  /\ rPc' = "done"
  /\ UNCHANGED <<rItem, rHas, rEntry>>
  /\ UNCHANGED restB

\* ------------------------------------------------------------------------
\* Part D: eval.js, box deduplication
\* ------------------------------------------------------------------------
MaxBoxes == 3

\* A box whose serialization "[100,..." sorts before "[12,..." of B2.
BWide == <<100000, 0, 110000, 10000>>

\* B1 given with its left and right edges exchanged.
BSwapped == <<10000, 0, 0, 10000>>

\* Boxes handed to dedupeBoxes: B1 and B1n round to the same box, BadNaN
\* becomes a finite box, BadArity is a short one, BSwapped has its corners
\* out of order.
DedupeBoxes == {B1, B1n, B2, BWide, BadNaN, BadArity, BSwapped}

\* The permutations of the positions 1..n.
PositionPerms(n) ==
  {f \in [1..n -> 1..n] : \A i, j \in 1..n : f[i] = f[j] => i = j}

\* The list bs with its elements in the order perm.
permuted(bs, perm) == [i \in 1..Len(bs) |-> bs[perm[i]]]

NoDedupe == [plain |-> <<>>, shuffled |-> <<>>, twice |-> <<>>]

InitDedupe ==
  /\ dBoxes \in SeqsUpTo(DedupeBoxes, MaxBoxes)
  /\ dPerm \in PositionPerms(Len(dBoxes))
  /\ dOut = NoDedupe
  /\ dPc = "input"

\* dedupeBoxes is applied to X, to the permuted X and to its own result.
DedupeRun ==
  /\ dPc = "input"
  /\ dOut' = [plain |-> dedupeBoxes(dBoxes),
              shuffled |-> dedupeBoxes(permuted(dBoxes, dPerm)),
              twice |-> dedupeBoxes(dedupeBoxes(dBoxes))]
  /\ dPc' = "done"
  /\ UNCHANGED <<dBoxes, dPerm>>
  /\ UNCHANGED restD

\* ------------------------------------------------------------------------
\* Part C: eval.js, correction cache and reviewer saves
\* ------------------------------------------------------------------------
\* The run under review: two documents, three examples.
Docs == {"d1", "d2"}
DocOrder == <<"d1", "d2">>
ExIds == {"e1", "e2", "e3"}

ExamplesOf(d) == IF d = "d1" THEN <<"e1", "e2">> ELSE <<"e3">>

Quad(b) == <<b[1], b[2], b[1], b[4], b[3], b[2], b[3], b[4]>>

Ex(e) ==
  CASE e = "e1" -> Item("e1", "d1", "Name:", "Jane",
                        <<Word(TRUE, B1), Word(TRUE, B2)>>)
    [] e = "e2" -> Item("e2", "d1", "Date", "2020", <<Word(TRUE, B2)>>)
    [] OTHER    -> Item("e3", "d2", "Total", "5", <<Word(TRUE, B1)>>)

\* ex.methods[m]: answer, word quads of the first pages, bbox_abs fallback.
MethodData(answer, quads, hasBbox, bbox) ==
  [answer |-> answer, quads |-> quads, hasBbox |-> hasBbox, bbox_abs |-> bbox]

MethodsOf(e, m) ==
  CASE e = "e1" /\ m = "raw"     -> MethodData("Jane", <<Quad(B1), Quad(B2)>>, FALSE, <<>>)
    [] e = "e1" /\ m = "indexed" -> MethodData("Jane Smith", <<>>, TRUE, B3)
    [] e = "e2" /\ m = "indexed" -> MethodData("2020", <<Quad(B2)>>, FALSE, <<>>)
    [] e = "e3" /\ m = "raw"     -> MethodData("5", <<Quad(B1)>>, FALSE, <<>>)
    [] OTHER                     -> MethodData("", <<>>, FALSE, <<>>)

\* normalizeLabel on the labels of this run: trim, drop trailing colons,
\* lower-case.
normalizeLabel(text) ==
  CASE text = "Name:" -> "name"
    [] text = "Name"  -> "name"
    [] text = "Date"  -> "date"
    [] text = "Total" -> "total"
    [] OTHER -> text

Min(S) == CHOOSE x \in S : \A y \in S : x <= y
Max(S) == CHOOSE x \in S : \A y \in S : x >= y

RECURSIVE collectQuads(_)
\* collectBoxes, inner loop: the min/max box of each well-formed quad.
collectQuads(qs) ==
  IF Len(qs) = 0 THEN <<>>
  ELSE LET q == qs[1] IN
    IF Len(q) # 8 \/ (\E j \in 1..Len(q) : q[j] = NaN)
      THEN collectQuads(Tail(qs))
      ELSE <<<<Min({q[1], q[3], q[5], q[7]}), Min({q[2], q[4], q[6], q[8]}),
               Max({q[1], q[3], q[5], q[7]}), Max({q[2], q[4], q[6], q[8]})>>>>
           \o collectQuads(Tail(qs))

collectBoxes(md) == collectQuads(md.quads)

\* unionBoxes: [has, box]; has is FALSE for its null result.
unionBoxes(bs) ==
  LET union(clean) ==
        IF Len(clean) = 0 THEN [has |-> FALSE, box |-> <<>>]
        ELSE [has |-> TRUE,
              box |-> <<Min({clean[i][1] : i \in 1..Len(clean)}),
                        Min({clean[i][2] : i \in 1..Len(clean)}),
                        Max({clean[i][3] : i \in 1..Len(clean)}),
                        Max({clean[i][4] : i \in 1..Len(clean)})>>]
  IN union(cleanWordBoxes(bs))

buildCorrectionItem(e, method, gtStatus, note) ==
  LET built(md, wordBoxes, u) ==
        LET fb == md.hasBbox /\ Len(md.bbox_abs) = 4 IN
        Rec(e, e, Ex(e).question, gtStatus, md.answer,
            u.has \/ fb,
            IF u.has THEN u.box ELSE IF fb THEN md.bbox_abs ELSE <<>>,
            TRUE, wordBoxes, method, method, note)
      boxed(md, wordBoxes) == built(md, wordBoxes, unionBoxes(wordBoxes))
      from(md) == boxed(md, dedupeBoxes(collectBoxes(md)))
  IN from(MethodsOf(e, method))

buildStatusItem(e, gtStatus, note) ==
  Rec(e, e, Ex(e).question, gtStatus, "", FALSE, <<>>, FALSE, <<>>, "", "", note)

\* item?.links?.eval_example_id || item?.item_id
exIdOf(r) == IF r.exid # "" THEN r.exid ELSE r.item_id

Put(f, k, v) == [x \in DOMAIN f \cup {k} |-> IF x = k THEN v ELSE f[x]]

EmptyMap == [x \in {} |-> NoRec]

RECURSIVE indexItems(_, _, _)
\* loadCorrectionsForDoc, lines 173-182: the two lookup maps.
indexItems(items, byExample, byLabel) ==
  IF Len(items) = 0 THEN [byExample |-> byExample, byLabel |-> byLabel]
  ELSE LET it == items[1]
           labelKey == normalizeLabel(it.field_label)
       IN IF exIdOf(it) # ""
            THEN indexItems(Tail(items), Put(byExample, exIdOf(it), it), byLabel)
            ELSE IF labelKey # ""
              THEN indexItems(Tail(items), byExample, Put(byLabel, labelKey, it))
              ELSE indexItems(Tail(items), byExample, byLabel)

\* A cache entry; has = FALSE stands for a document with no entry.
Entry(items) ==
  LET indexed(ix) ==
        [has |-> TRUE, items |-> items, byExample |-> ix.byExample,
         byLabel |-> ix.byLabel]
  IN indexed(indexItems(items, EmptyMap, EmptyMap))

NoEntry ==
  [has |-> FALSE, items |-> <<>>, byExample |-> EmptyMap, byLabel |-> EmptyMap]

\* loadCorrectionsForDoc, mutated: no catch, the failed response's body is
\* used as the payload.
loadedItemsNoCatch(resp, payload) == payload

\* loadCorrectionsForDoc, lines 163-170: the items of the settled GET.
loadedItems(resp, payload) == IF resp = "ok" THEN payload ELSE <<>>

\* getCorrectionEntryForExample, mutated: the label index is asked first.
getCorrectionEntryForExampleLabelFirst(cache, e) ==
  LET found(cached, labelKey) ==
        IF ~cached.has THEN [has |-> FALSE, rec |-> NoRec]
        ELSE IF labelKey \in DOMAIN cached.byLabel
          THEN [has |-> TRUE, rec |-> cached.byLabel[labelKey]]
        ELSE IF e \in DOMAIN cached.byExample
          THEN [has |-> TRUE, rec |-> cached.byExample[e]]
        ELSE [has |-> FALSE, rec |-> NoRec]
  IN found(cache[Ex(e).doc_id], normalizeLabel(Ex(e).question))

\* getCorrectionEntryForExample against a cache; [has, rec].
getCorrectionEntryForExample(cache, e) ==
  LET found(cached, labelKey) ==
        IF ~cached.has THEN [has |-> FALSE, rec |-> NoRec]
        ELSE IF e \in DOMAIN cached.byExample
          THEN [has |-> TRUE, rec |-> cached.byExample[e]]
        ELSE IF labelKey \in DOMAIN cached.byLabel
          THEN [has |-> TRUE, rec |-> cached.byLabel[labelKey]]
        ELSE [has |-> FALSE, rec |-> NoRec]
  IN found(cache[Ex(e).doc_id], normalizeLabel(Ex(e).question))

\* saveCorrection, lines 581-593: replace the first record with the same
\* id, else append.
upsertItem(items, item) ==
  LET placed(hits) ==
        IF hits = {} THEN Append(items, item)
        ELSE [items EXCEPT ![Min(hits)] = item]
  IN placed({i \in 1..Len(items) :
               exIdOf(item) # "" /\ exIdOf(items[i]) = exIdOf(item)})

\* saveCorrection, line 581, mutated: the cached array is edited in place.
cachedAfterUpsertInPlace(entry, items) == [entry EXCEPT !.items = items]

\* saveCorrection, line 581: the upsert works on a copy (slice), the cached
\* entry stays as it is.
cachedAfterUpsert(entry, items) == entry

\* computeReviewStatsForDoc, lines 392-399.
reviewedFlags(cache, d) ==
  [e \in ExIds |->
     IF Ex(e).doc_id = d THEN getCorrectionEntryForExample(cache, e).has
     ELSE exReviewed[e]]

reviewStats(cache, d) ==
  [has |-> TRUE,
   reviewedCount |-> Cardinality({e \in ExIds : Ex(e).doc_id = d /\
                                   getCorrectionEntryForExample(cache, e).has}),
   totalCount |-> Len(ExamplesOf(d))]

NoStats == [has |-> FALSE, reviewedCount |-> 0, totalCount |-> 0]

\* ---- the review controls ----
PickValues == {"raw", "indexed", "dataset"}

\* selectedFromExclude || selectedFromPick
selectedOf(d) == IF d.excludeChecked THEN "exclude" ELSE d.pickValue

\* updateGtDecisionButtons: the disabled state of the two buttons.
updateGtDecisionButtons(c, d, decision, saving) ==
  LET hasExample == c.currentExample # ""
      selected == selectedOf(d)
      noteChanged == d.noteInput # c.currentSavedNote
  IN [d EXCEPT
        !.applyDisabled = \/ saving
                          \/ ~hasExample
                          \/ (selected = "" /\ ~noteChanged)
                          \/ (selected # "" /\ selected = decision /\ ~noteChanged),
        !.markDisabled = saving \/ ~hasExample]

\* updateGtStatusUI: the pick inputs and the exclude box follow the pending
\* decision, else the saved decision.
updateGtStatusUI(d, gt, pending, hasCorrection) ==
  LET shown == IF pending # "" THEN pending
               ELSE IF hasCorrection THEN gt.decision ELSE ""
  IN [d EXCEPT !.pickValue = IF shown \in PickValues THEN shown ELSE "",
               !.excludeChecked = (shown = "exclude"),
               !.statusNote = "info"]

\* The mutable client state an async continuation works on.
World ==
  [cache |-> correctionsCache, stats |-> reviewStatsByDoc,
   exReviewed |-> exReviewed, saving |-> gtSaveInFlight, cur |-> cur,
   dom |-> dom, log |-> loadLog]

\* renderExample(ex), lines 1163-1200.
renderExample(w, e) ==
  LET isNew == w.cur.currentExample = "" \/ w.cur.currentExample # e
      pending == IF isNew THEN "" ELSE w.cur.pendingDecision
      shown(ce, gt, c2, d1) ==
        [w EXCEPT !.cur = c2,
                  !.dom = updateGtDecisionButtons(c2,
                            [d1 EXCEPT !.noteInput = ce.rec.notes],
                            gt.decision, w.saving)]
      resolved(ce, gt) ==
        shown(ce, gt,
              [currentExample |-> e, currentGtResolved |-> gt, stamped |-> TRUE,
               currentHasCorrection |-> ce.has,
               currentSavedNote |-> ce.rec.notes, pendingDecision |-> pending],
              updateGtStatusUI(w.dom, gt, pending, ce.has))
      looked(ce) == resolved(ce, renderResolved(Ex(e), ce.has, ce.rec))
  IN looked(getCorrectionEntryForExample(w.cache, e))

\* loadCorrectionsForDoc resumes after its GET: lines 166-185.
cacheLoaded(w, d, resp, payload) ==
  LET cached(entry) ==
        [w EXCEPT !.cache = [w.cache EXCEPT ![d] = entry],
                  !.log = [doc |-> d, failed |-> (resp # "ok"), entry |-> entry,
                           requested |-> w.log.requested]]
  IN cached(Entry(loadedItems(resp, payload)))

\* computeReviewStatsForDoc after its load: lines 392-399.
statsComputed(w, d) ==
  [w EXCEPT !.stats = [w.stats EXCEPT ![d] = reviewStats(w.cache, d)],
            !.exReviewed = [e \in ExIds |->
                 IF Ex(e).doc_id = d
                   THEN getCorrectionEntryForExample(w.cache, e).has
                   ELSE w.exReviewed[e]]]

\* loadExamplesForDoc after computeReviewStatsForDoc: lines 1072-1110.
examplesShown(w, d, sel) ==
  renderExample(
    [w EXCEPT !.dom = [w.dom EXCEPT !.exampleOptions = d]],
    IF sel # "" /\ (\E i \in 1..Len(ExamplesOf(d)) : ExamplesOf(d)[i] = sel)
      THEN sel ELSE ExamplesOf(d)[1])

\* A suspended call: the function (kind), where it is (pc), the request it
\* awaits (req, doc, posted) and the response once the backend has answered.
Task(kind, pc, req, d) ==
  [kind |-> kind, pc |-> pc, req |-> req, doc |-> d, resp |-> "none",
   payload |-> <<>>, posted |-> <<>>, item |-> NoRec, sel |-> "", idx |-> 0,
   mark |-> FALSE, dChanged |-> FALSE, nChanged |-> FALSE, noteValue |-> "",
   ex |-> ""]

NoTask == Task("none", "", "", "")

RemoveAt(seq, i) == SubSeq(seq, 1, i - 1) \o SubSeq(seq, i + 1, Len(seq))

\* The tasks after call i has run on: gone when it finished (NoTask), else
\* suspended again.
TasksAfter(i, t) ==
  IF t = NoTask THEN RemoveAt(tasks, i) ELSE [tasks EXCEPT ![i] = t]

\* The variables take the values of a world.
Commit(w) ==
  /\ correctionsCache' = w.cache
  /\ reviewStatsByDoc' = w.stats
  /\ exReviewed' = w.exReviewed
  /\ gtSaveInFlight' = w.saving
  /\ cur' = w.cur
  /\ dom' = w.dom
  /\ loadLog' = w.log

RECURSIVE hydrateFrom(_, _)
\* hydrateReviewStats, the loop from document number idx on: [w, task].
hydrateFrom(w, idx) ==
  IF idx > Len(DocOrder) THEN [w |-> w, task |-> NoTask, loading |-> FALSE]
  ELSE LET d == DocOrder[idx] IN
    IF w.cache[d].has
      THEN hydrateFrom(statsComputed(w, d), idx + 1)
      ELSE [w |-> w,
            task |-> [Task("hy", "load", "GET", d) EXCEPT !.idx = idx],
            loading |-> TRUE]

\* loadExamplesForDoc(d, sel) from its start: [w, task].
loadExamplesForDoc(w, d, sel) ==
  LET called(w1) ==
        IF w1.cache[d].has
          THEN [w |-> examplesShown(statsComputed(w1, d), d, sel),
                task |-> NoTask]
          ELSE [w |-> w1,
                task |-> [Task("le", "load", "GET", d) EXCEPT !.sel = sel]]
  IN called([w EXCEPT !.log = [w.log EXCEPT !.requested = d]])

\* ---- the save handlers, stage by stage ----
\* The finally block of a click handler, mutated: the save guard is kept.
saveFinishedGuardKept(w) == w

\* setGtSaving(false) in the finally block of a click handler.
saveFinished(w) == [w EXCEPT !.saving = FALSE]

\* A suspended save handler resumes its GET on document d at pc.
SuspendAt(t, pc, d) ==
  [t EXCEPT !.pc = pc, !.req = "GET", !.doc = d, !.resp = "none",
            !.payload = <<>>]

\* The handler from computeReviewStatsForDoc(currentExample.doc_id) on.
saveStatsStage(w, t) ==
  LET d == Ex(w.cur.currentExample).doc_id IN
  IF w.cache[d].has
    THEN [w |-> saveFinished(statsComputed(w, d)), task |-> NoTask]
    ELSE [w |-> w, task |-> SuspendAt(t, "stats", d)]

\* The handler from the return of saveCorrection on: lines 1690-1700 and
\* 1715-1719.
saveReturnedStage(w, t) ==
  LET e == w.cur.currentExample
      noteSaved(c2) ==
        [w EXCEPT !.cur = c2,
                  !.dom = [updateGtDecisionButtons(c2, w.dom,
                             c2.currentGtResolved.decision, w.saving)
                           EXCEPT !.statusNote = "saved"]]
      cleared(w1) ==
        IF (t.mark \/ t.dChanged) /\ ~w1.cache[Ex(e).doc_id].has
          THEN [w |-> w1,
                task |-> [SuspendAt(t, "refresh", Ex(e).doc_id) EXCEPT !.ex = e]]
          ELSE saveStatsStage(
                 IF t.mark \/ t.dChanged THEN renderExample(w1, e)
                 ELSE IF t.nChanged
                   THEN noteSaved([w1.cur EXCEPT !.currentSavedNote = t.noteValue])
                   ELSE w1,
                 t)
  IN cleared([w EXCEPT !.cur = [w.cur EXCEPT !.pendingDecision = ""]])

\* saveCorrection from the return of its first load on: upsert and POST.
savePostStage(w, t, entry) ==
  LET posting(items) ==
        [w |-> [w EXCEPT !.cache = [w.cache EXCEPT ![t.doc] =
                         IF w.cache[t.doc] = entry
                           THEN cachedAfterUpsert(entry, items)
                           ELSE w.cache[t.doc]]],
         task |-> [t EXCEPT !.pc = "post", !.req = "POST", !.posted = items,
                            !.resp = "none", !.payload = <<>>]]
  IN posting(upsertItem(entry.items, t.item))

\* saveCorrection(docId, item) from its start.
saveCorrection(w, t) ==
  IF w.cache[t.doc].has
    THEN savePostStage(w, t, w.cache[t.doc])
    ELSE [w |-> w, task |-> SuspendAt(t, "load1", t.doc)]

\* resolveGtForExample as the input handlers store it: not stamped by
\* renderExample.
unstampedGt(w, e) ==
  LET unstamped(gt) ==
        [status |-> gt.status, source |-> gt.source, decision |-> gt.decision,
         value |-> gt.value, boxes |-> gt.boxes, note |-> gt.note,
         reviewed |-> FALSE]
      looked(ce) == unstamped(resolveGtForExample(Ex(e), ce.has, ce.rec))
  IN looked(getCorrectionEntryForExample(w.cache, e))

\* The tail of the gtPick / gtExclude change handlers: lines 1613-1618.
decisionInputChanged(w, c, d) ==
  LET stored(c2) ==
        [w EXCEPT !.cur = c2,
                  !.dom = updateGtDecisionButtons(c2, d,
                            c2.currentGtResolved.decision, w.saving)]
      resolved(gt) == stored([c EXCEPT !.currentGtResolved = gt, !.stamped = FALSE])
  IN resolved(unstampedGt(w, c.currentExample))

\* rawOk / indexedOk of updateGtDecisionButtons.
methodOk(e, m) ==
  LET ok(md) == md.answer # "" /\ (Len(collectBoxes(md)) > 0 \/ md.hasBbox)
  IN ok(MethodsOf(e, m))

\* ---- bounds of the reviewer's session ----
MaxEvents == 2
Notes == {"", "n"}

\* ---- the backend ----
\* GET /api/gt/corrections?doc= is answered: the stored list, or an error.
SrvGet ==
  \E i \in 1..Len(tasks) :
    /\ tasks[i].req = "GET" /\ tasks[i].resp = "none"
    /\ \E out \in {"ok", "fail"} :
         tasks' = [tasks EXCEPT ![i].resp = out,
                                ![i].payload = srvItems[tasks[i].doc]]
    /\ UNCHANGED <<srvItems, runPc, correctionsCache, reviewStatsByDoc,
                   reviewStatsLoading, exReviewed, gtSaveInFlight, cur, dom,
                   loadLog, userEvents>>
    /\ UNCHANGED restC

\* POST /api/gt/corrections is answered: the list is replaced, or an error.
SrvPost ==
  \E i \in 1..Len(tasks) :
    /\ tasks[i].req = "POST" /\ tasks[i].resp = "none"
    /\ \/ /\ tasks' = [tasks EXCEPT ![i].resp = "ok"]
          /\ srvItems' = [srvItems EXCEPT ![tasks[i].doc] = tasks[i].posted]
       \/ /\ tasks' = [tasks EXCEPT ![i].resp = "fail"]
          /\ UNCHANGED srvItems
    /\ UNCHANGED <<runPc, correctionsCache, reviewStatsByDoc,
                   reviewStatsLoading, exReviewed, gtSaveInFlight, cur, dom,
                   loadLog, userEvents>>
    /\ UNCHANGED restC

\* ---- the client ----
\* loadRun after its GET: buildDocIndex, applyDocFilter (which opens the
\* first document) and hydrateReviewStats, each up to its first GET.
LoadRun ==
  /\ runPc = "boot"
  /\ runPc' = "loaded"
  /\ LET started(t) == IF t = NoTask THEN <<>> ELSE <<t>>
         hydrating(r, h) ==
           /\ Commit(h.w)
           /\ tasks' = tasks \o started(r.task) \o started(h.task)
           /\ reviewStatsLoading' = h.loading
         filtered(r) ==
           hydrating(r, IF reviewStatsLoading
                          THEN [w |-> r.w, task |-> NoTask, loading |-> TRUE]
                          ELSE hydrateFrom(r.w, 1))
     IN filtered(loadExamplesForDoc(World, DocOrder[1], ""))
  /\ UNCHANGED <<srvItems, userEvents>>
  /\ UNCHANGED restC

\* docSelect change (or a click in the document list): loadExamplesForDoc.
DocSelect ==
  \E d \in Docs :
    /\ runPc = "loaded"
    /\ userEvents < MaxEvents
    /\ userEvents' = userEvents + 1
    /\ LET opened(r) ==
             /\ Commit(r.w)
             /\ tasks' = IF r.task = NoTask THEN tasks ELSE Append(tasks, r.task)
       IN opened(loadExamplesForDoc(World, d, ""))
    /\ UNCHANGED <<srvItems, runPc, reviewStatsLoading>>
    /\ UNCHANGED restC

\* loadExamplesForDoc resumes after the GET of its loadCorrectionsForDoc.
LoadExamplesLoaded ==
  \E i \in 1..Len(tasks) :
    /\ tasks[i].kind = "le" /\ tasks[i].resp # "none"
    /\ LET t == tasks[i] IN
         Commit(examplesShown(
           statsComputed(cacheLoaded(World, t.doc, t.resp, t.payload), t.doc),
           t.doc, t.sel))
    /\ tasks' = RemoveAt(tasks, i)
    /\ UNCHANGED <<srvItems, runPc, reviewStatsLoading, userEvents>>
    /\ UNCHANGED restC

\* hydrateReviewStats resumes after a GET and goes on with its loop.
HydrateLoaded ==
  \E i \in 1..Len(tasks) :
    /\ tasks[i].kind = "hy" /\ tasks[i].resp # "none"
    /\ LET t == tasks[i]
           resumed(h) ==
             /\ Commit(h.w)
             /\ tasks' = TasksAfter(i, h.task)
             /\ reviewStatsLoading' = h.loading
       IN resumed(hydrateFrom(
            statsComputed(cacheLoaded(World, t.doc, t.resp, t.payload), t.doc),
            t.idx + 1))
    /\ UNCHANGED <<srvItems, runPc, userEvents>>
    /\ UNCHANGED restC

\* exampleSelect change: renderExample of the chosen option.
ExampleSelect ==
  \E e \in ExIds :
    /\ dom.exampleOptions = Ex(e).doc_id
    /\ userEvents < MaxEvents
    /\ userEvents' = userEvents + 1
    /\ Commit(renderExample(World, e))
    /\ UNCHANGED <<srvItems, tasks, runPc, reviewStatsLoading>>
    /\ UNCHANGED restC

\* gtPick change: one of the decision radios is checked.
Pick ==
  \E v \in PickValues :
    /\ cur.currentExample # ""
    /\ v = "dataset" \/ methodOk(cur.currentExample, v)
    /\ userEvents < MaxEvents
    /\ userEvents' = userEvents + 1
    /\ Commit(decisionInputChanged(World,
                [cur EXCEPT !.pendingDecision = v],
                [dom EXCEPT !.pickValue = v, !.excludeChecked = FALSE]))
    /\ UNCHANGED <<srvItems, tasks, runPc, reviewStatsLoading>>
    /\ UNCHANGED restC

\* gtExclude change: the exclude box is toggled.
ExcludeToggle ==
  /\ cur.currentExample # ""
  /\ userEvents < MaxEvents
  /\ userEvents' = userEvents + 1
  /\ Commit(decisionInputChanged(World,
       [cur EXCEPT !.pendingDecision =
          IF ~dom.excludeChecked THEN "exclude"
          ELSE IF cur.pendingDecision = "exclude" THEN ""
          ELSE cur.pendingDecision],
       [dom EXCEPT !.excludeChecked = ~dom.excludeChecked,
                   !.pickValue = IF ~dom.excludeChecked THEN "" ELSE dom.pickValue]))
  /\ UNCHANGED <<srvItems, tasks, runPc, reviewStatsLoading>>
  /\ UNCHANGED restC

\* gtNote input: the reviewer edits the note.
NoteInput ==
  \E n \in Notes :
    /\ cur.currentExample # ""
    /\ n # dom.noteInput
    /\ userEvents < MaxEvents
    /\ userEvents' = userEvents + 1
    /\ dom' = updateGtDecisionButtons(cur, [dom EXCEPT !.noteInput = n],
                                      cur.currentGtResolved.decision,
                                      gtSaveInFlight)
    /\ UNCHANGED <<srvItems, tasks, runPc, correctionsCache,
                   reviewStatsByDoc, reviewStatsLoading, exReviewed,
                   gtSaveInFlight, cur, loadLog>>
    /\ UNCHANGED restC

\* The item the Apply handler saves for a decision: lines 1665-1689.
applyItem(e, decision, selected, noteValue) ==
  CASE decision = "custom" /\ selected = "" ->
         [getCorrectionEntryForExample(correctionsCache, e).rec
            EXCEPT !.notes = noteValue]
    [] decision = "dataset" -> buildStatusItem(e, "use_dataset", noteValue)
    [] decision = "exclude" -> buildStatusItem(e, "exclude", noteValue)
    [] decision = "raw" ->
         buildCorrectionItem(e, "raw", "use_correction", noteValue)
    [] decision = "indexed" ->
         buildCorrectionItem(e, "indexed", "use_correction", noteValue)
    [] OTHER -> NoRec

\* gtApplyBtn click, up to the first request of saveCorrection.
ApplyClick ==
  LET e == cur.currentExample
      selected == selectedOf(dom)
      fallbackDecision == cur.currentGtResolved.decision
      noteValue == dom.noteInput
      noteChanged == noteValue # cur.currentSavedNote
      decision == IF selected # "" THEN selected
                  ELSE IF noteChanged THEN fallbackDecision ELSE ""
      t0 == [Task("sv", "start", "", Ex(e).doc_id) EXCEPT
               !.dChanged = (decision # fallbackDecision),
               !.nChanged = noteChanged, !.noteValue = noteValue]
      w0 == [World EXCEPT !.saving = TRUE,
                          !.dom = [dom EXCEPT !.applyDisabled = TRUE]]
      suspended(r) ==
        /\ Commit(r.w)
        /\ tasks' = IF r.task = NoTask THEN tasks ELSE Append(tasks, r.task)
      saving(item) ==
        IF item = NoRec
          THEN \* no branch saves; the handler goes on after the if chain
               suspended(saveReturnedStage(w0, t0))
          ELSE suspended(saveCorrection(w0, [t0 EXCEPT !.item = item]))
  IN
  /\ ~dom.applyDisabled
  /\ e # ""
  /\ ~gtSaveInFlight
  /\ decision # ""
  /\ userEvents < MaxEvents
  /\ userEvents' = userEvents + 1
  /\ IF decision = "custom" /\ selected = ""
        /\ ~getCorrectionEntryForExample(correctionsCache, e).has
       THEN \* `if (!existing) return`, then the finally block
            /\ Commit(saveFinished(w0))
            /\ UNCHANGED tasks
       ELSE saving(applyItem(e, decision, selected, noteValue))
  /\ UNCHANGED <<srvItems, runPc, reviewStatsLoading>>
  /\ UNCHANGED restC

\* gtMarkReviewedBtn click, mutated: line 1709 does not test gtSaveInFlight.
MarkClickUnguarded ==
  LET e == cur.currentExample
      t0 == [Task("sv", "start", "", Ex(e).doc_id) EXCEPT
               !.item = buildStatusItem(e, "use_dataset", dom.noteInput),
               !.mark = TRUE, !.noteValue = dom.noteInput]
      w0 == [World EXCEPT !.saving = TRUE,
                          !.dom = [dom EXCEPT !.applyDisabled = TRUE]]
      suspended(r) ==
        /\ Commit(r.w)
        /\ tasks' = Append(tasks, r.task)
  IN
  /\ ~dom.markDisabled
  /\ e # ""
  /\ userEvents < MaxEvents
  /\ userEvents' = userEvents + 1
  /\ suspended(saveCorrection(w0, t0))
  /\ UNCHANGED <<srvItems, runPc, reviewStatsLoading>>
  /\ UNCHANGED restC

\* gtMarkReviewedBtn click, up to the first request of saveCorrection.
MarkClick ==
  LET e == cur.currentExample
      t0 == [Task("sv", "start", "", Ex(e).doc_id) EXCEPT
               !.item = buildStatusItem(e, "use_dataset", dom.noteInput),
               !.mark = TRUE, !.noteValue = dom.noteInput]
      w0 == [World EXCEPT !.saving = TRUE,
                          !.dom = [dom EXCEPT !.applyDisabled = TRUE]]
      suspended(r) ==
        /\ Commit(r.w)
        /\ tasks' = Append(tasks, r.task)
  IN
  /\ ~dom.markDisabled
  /\ e # ""
  /\ ~gtSaveInFlight
  /\ userEvents < MaxEvents
  /\ userEvents' = userEvents + 1
  /\ suspended(saveCorrection(w0, t0))
  /\ UNCHANGED <<srvItems, runPc, reviewStatsLoading>>
  /\ UNCHANGED restC

\* saveCorrection resumes after a successful POST: the cache entry is
\* deleted and the document is loaded again.
SavePosted ==
  \E i \in 1..Len(tasks) :
    /\ tasks[i].kind = "sv" /\ tasks[i].pc = "post" /\ tasks[i].resp = "ok"
    /\ correctionsCache' = [correctionsCache EXCEPT ![tasks[i].doc] = NoEntry]
    /\ tasks' = [tasks EXCEPT ![i] = SuspendAt(tasks[i], "load2", tasks[i].doc)]
    /\ UNCHANGED <<srvItems, runPc, reviewStatsByDoc, reviewStatsLoading,
                   exReviewed, gtSaveInFlight, cur, dom, loadLog, userEvents>>
    /\ UNCHANGED restC

\* saveCorrection rejects after a failed POST: the catch block shows the
\* message, the finally block releases the guard.
SaveFailed ==
  \E i \in 1..Len(tasks) :
    /\ tasks[i].kind = "sv" /\ tasks[i].pc = "post" /\ tasks[i].resp = "fail"
    /\ dom' = [dom EXCEPT !.statusNote = "error"]
    /\ gtSaveInFlight' = FALSE
    /\ tasks' = RemoveAt(tasks, i)
    /\ UNCHANGED <<srvItems, runPc, correctionsCache, reviewStatsByDoc,
                   reviewStatsLoading, exReviewed, cur, loadLog, userEvents>>
    /\ UNCHANGED restC

\* The catch and finally blocks of a click handler whose save rejected with
\* message.
saveRejected(w, message) ==
  saveFinished([w EXCEPT !.dom = [w.dom EXCEPT !.statusNote = message]])

\* postJson's 8-second timer fires while the POST of a save is unanswered:
\* controller.abort() rejects the fetch, saveCorrection rejects, the catch
\* block shows the abort message and the finally block releases the guard.
\* The aborted request either never reached the backend or was carried out
\* by it unheard.
SaveTimeout ==
  \E i \in 1..Len(tasks) :
    /\ tasks[i].kind = "sv" /\ tasks[i].pc = "post" /\ tasks[i].resp = "none"
    /\ Commit(saveRejected(World, "aborted"))
    /\ tasks' = RemoveAt(tasks, i)
    /\ srvItems' \in {srvItems,
                      [srvItems EXCEPT ![tasks[i].doc] = tasks[i].posted]}
    /\ UNCHANGED <<runPc, reviewStatsLoading, userEvents>>
    /\ UNCHANGED restC

\* A save handler resumes after a GET of loadCorrectionsForDoc: the first
\* load of saveCorrection, its reload, the load of refreshCurrentExample or
\* the load of computeReviewStatsForDoc.
SaveLoaded ==
  \E i \in 1..Len(tasks) :
    /\ tasks[i].kind = "sv" /\ tasks[i].req = "GET" /\ tasks[i].resp # "none"
    /\ LET t == tasks[i]
           resumed(r) ==
             /\ Commit(r.w)
             /\ tasks' = TasksAfter(i, r.task)
           loaded(w0) ==
             resumed(
               CASE t.pc = "load1" -> savePostStage(w0, t, w0.log.entry)
                 [] t.pc = "load2" -> saveReturnedStage(w0, t)
                 [] t.pc = "refresh" -> saveStatsStage(renderExample(w0, t.ex), t)
                 [] OTHER ->
                      [w |-> saveFinished(statsComputed(w0, t.doc)),
                       task |-> NoTask])
       IN loaded(cacheLoaded(World, t.doc, t.resp, t.payload))
    /\ UNCHANGED <<srvItems, runPc, reviewStatsLoading, userEvents>>
    /\ UNCHANGED restC

\* ------------------------------------------------------------------------
\* Part E: helper functions (box geometry, scoring, correction lookup)
\* ------------------------------------------------------------------------
\* A coordinate that Number() maps to Infinity (1e999 in the run's JSON).
Infinity == 999999

MaxQuads == 2

\* An entry of word_quads_abs: an array of coordinates, null, or a value
\* that is neither (a string, a number, an object).
QuadEntry(kind, nums) == [kind |-> kind, nums |-> nums]

QuadEntries ==
  {QuadEntry("array", Quad(B1)), QuadEntry("array", Quad(B2)),
   QuadEntry("array", SubSeq(Quad(B1), 1, 7)),
   QuadEntry("array", [Quad(B2) EXCEPT ![3] = NaN]),
   QuadEntry("array", [Quad(B2) EXCEPT ![5] = Infinity]),
   QuadEntry("null", <<>>),
   QuadEntry("object", <<>>)}

\* collectBoxes on the entries of one page: (q || []).map(...) throws a
\* TypeError on an entry that is truthy and has no map method.
collectBoxesRaw(entries) ==
  IF \E i \in 1..Len(entries) : entries[i].kind = "object"
    THEN [threw |-> TRUE, boxes |-> <<>>]
    ELSE [threw |-> FALSE,
          boxes |-> collectQuads([i \in 1..Len(entries) |-> entries[i].nums])]

InitCollect ==
  /\ gFn = "collectBoxes"
  /\ gArg \in SeqsUpTo(QuadEntries, MaxQuads)

CollectRun ==
  /\ gPc = "input" /\ gFn = "collectBoxes"
  /\ gOut' = collectBoxesRaw(gArg)
  /\ gPc' = "done"
  /\ UNCHANGED <<gFn, gArg>>
  /\ UNCHANGED restE

\* ---- mergeBoxesToLines ----
MaxMerge == 3

\* Word boxes 10 high (yTol 6, gapTol 20 when they are the median): BEdge
\* lies exactly gapTol right of B2 and BWide further; BNear is centred
\* exactly yTol below B1, BDrift a little lower, BLow a line below.
BEdge == <<42000, 0, 52000, 10000>>
BNear == <<0, 6000, 10000, 16000>>
BDrift == <<0, 9000, 10000, 19000>>
BLow == <<0, 20000, 10000, 30000>>

MergeBoxes == {B1, B1n, B2, BEdge, BWide, BNear, BDrift, BLow}

Abs(n) == IF n < 0 THEN 0 - n ELSE n

RECURSIVE insertNum(_, _)
insertNum(sorted, n) ==
  IF Len(sorted) = 0 THEN <<n>>
  ELSE IF n < sorted[1] THEN <<n>> \o sorted
  ELSE <<sorted[1]>> \o insertNum(Tail(sorted), n)

RECURSIVE sortNums(_)
\* heights.slice().sort((a, b) => a - b)
sortNums(ns) ==
  IF Len(ns) = 0 THEN <<>>
  ELSE insertNum(sortNums(SubSeq(ns, 1, Len(ns) - 1)), ns[Len(ns)])

\* Twice the median height of the normalized boxes (lines 745-749); a
\* height is at least 1.
medianHeightTwice(norm) ==
  LET middle(sortedHeights, mid) ==
        IF Len(sortedHeights) % 2 = 0
          THEN sortedHeights[mid] + sortedHeights[mid + 1]
          ELSE 2 * sortedHeights[mid + 1]
  IN middle(sortNums([i \in 1..Len(norm) |-> Max({1000, norm[i][4] - norm[i][2]})]),
            Len(norm) \div 2)

\* gapTol = Math.max(10, medianHeight * 2) (line 751).
gapTol(norm) == Max({10000, medianHeightTwice(norm)})

\* Line 750, mutated: the vertical tolerance is the horizontal one.
yTolTenfoldOfGapTol(norm) == 10 * gapTol(norm)

\* 10 * yTol, yTol = Math.max(2, medianHeight * 0.6) (line 750).
yTolTenfold(norm) == Max({20000, 3 * medianHeightTwice(norm)})

\* Twice the vertical centre of a box: (b[1] + b[3]) / 2 at line 754.
centerTwice(b) == b[2] + b[4]

RECURSIVE insertItem(_, _)
\* Stable insertion by vertical centre, then left edge (line 755).
insertItem(sorted, b) ==
  IF Len(sorted) = 0 THEN <<b>>
  ELSE IF \/ centerTwice(b) < centerTwice(sorted[1])
          \/ (centerTwice(b) = centerTwice(sorted[1]) /\ b[1] < sorted[1][1])
    THEN <<b>> \o sorted
    ELSE <<sorted[1]>> \o insertItem(Tail(sorted), b)

RECURSIVE sortItems(_)
sortItems(bs) ==
  IF Len(bs) = 0 THEN <<>>
  ELSE insertItem(sortItems(SubSeq(bs, 1, Len(bs) - 1)), bs[Len(bs)])

\* The sum of the doubled centres of the boxes of a cluster; centerY, the
\* running mean of line 761, is this sum over twice their number.
centerSum(items) ==
  LET RECURSIVE sum(_)
      sum(k) == IF k = 0 THEN 0 ELSE centerTwice(items[k]) + sum(k - 1)
  IN sum(Len(items))

\* Line 759: Math.abs(item.y - last.centerY) <= yTol.
joinsCluster(items, b, yTol10) ==
  5 * Abs(Len(items) * centerTwice(b) - centerSum(items)) <= Len(items) * yTol10

RECURSIVE clustersFrom(_, _, _)
\* The clustering loop, lines 757-766: the clusters, each the list of its
\* boxes.
clustersFrom(clusters, items, yTol10) ==
  IF Len(items) = 0 THEN clusters
  ELSE IF Len(clusters) > 0
          /\ joinsCluster(clusters[Len(clusters)], items[1], yTol10)
    THEN clustersFrom(
           [clusters EXCEPT ![Len(clusters)] = Append(@, items[1])],
           Tail(items), yTol10)
    ELSE clustersFrom(Append(clusters, <<items[1]>>), Tail(items), yTol10)

RECURSIVE insertByLeft(_, _)
\* Stable insertion by left edge (line 770).
insertByLeft(sorted, b) ==
  IF Len(sorted) = 0 THEN <<b>>
  ELSE IF b[1] < sorted[1][1] THEN <<b>> \o sorted
  ELSE <<sorted[1]>> \o insertByLeft(Tail(sorted), b)

RECURSIVE sortByLeft(_)
sortByLeft(bs) ==
  IF Len(bs) = 0 THEN <<>>
  ELSE insertByLeft(sortByLeft(SubSeq(bs, 1, Len(bs) - 1)), bs[Len(bs)])

\* Line 778, mutated: a box that starts right of the segment splits it.
splitsSegmentAtAnyGap(gap, tol) == gap > 0

\* Line 778, mutated: a gap of exactly gapTol splits as well.
splitsSegmentAtTol(gap, tol) == gap >= tol

\* Line 778: if (gap > gapTol).
splitsSegment(gap, tol) == gap > tol

\* Lines 781-784, mutated: the open segment grows in width only.
extendSegmentInWidth(segment, b) ==
  <<Min({segment[1], b[1]}), segment[2], Max({segment[3], b[3]}), segment[4]>>

\* Lines 781-784: the open segment grows to hold the box.
extendSegment(segment, b) ==
  <<Min({segment[1], b[1]}), Min({segment[2], b[2]}),
    Max({segment[3], b[3]}), Max({segment[4], b[4]})>>

RECURSIVE segmentsFrom(_, _, _, _)
\* The segment loop of one cluster, lines 771-787: the rectangles pushed,
\* the open segment last.
segmentsFrom(done, segment, boxesSorted, tol) ==
  IF Len(boxesSorted) = 0 THEN Append(done, segment)
  ELSE LET b == boxesSorted[1] IN
    IF splitsSegment(b[1] - segment[3], tol)
      THEN segmentsFrom(Append(done, segment), b, Tail(boxesSorted), tol)
      ELSE segmentsFrom(done, extendSegment(segment, b),
                        Tail(boxesSorted), tol)

\* The rectangles of one cluster.
clusterSegments(cluster, tol) ==
  LET from(boxesSorted) ==
        segmentsFrom(<<>>, boxesSorted[1], Tail(boxesSorted), tol)
  IN from(sortByLeft(cluster))

RECURSIVE flatten(_)
\* merged: the rectangles of all clusters, in the order they are pushed.
flatten(lists) ==
  IF Len(lists) = 0 THEN <<>> ELSE lists[1] \o flatten(Tail(lists))

\* mergeBoxesToLines(boxes): merged is what it returns; clusters and
\* segments are the clusters it went through and the rectangles of each.
mergeBoxesToLines(bs) ==
  LET lines(norm) ==
        IF Len(norm) = 0
          THEN [clusters |-> <<>>, segments |-> <<>>, merged |-> <<>>]
        ELSE LET out(clusters, segments) ==
                   [clusters |-> clusters, segments |-> segments,
                    merged |-> flatten(segments)]
                 split(clusters, tol) ==
                   out(clusters,
                       [k \in 1..Len(clusters) |->
                          clusterSegments(clusters[k], tol)])
             IN split(clustersFrom(<<>>, sortItems(norm), yTolTenfold(norm)),
                      gapTol(norm))
  IN lines(normalizeBoxes(bs))

InitMerge ==
  /\ gFn = "mergeBoxesToLines"
  /\ gArg \in SeqsUpTo(MergeBoxes, MaxMerge)

MergeRun ==
  /\ gPc = "input" /\ gFn = "mergeBoxesToLines"
  /\ gOut' = mergeBoxesToLines(gArg)
  /\ gPc' = "done"
  /\ UNCHANGED <<gFn, gArg>>
  /\ UNCHANGED restE

\* ---- intersectBox and the overlap overlay ----
\* Boxes around B1: BTouch shares its right edge, BCorner its lower right
\* corner, BOver overlaps its lower right quarter; B3 contains B1 and B2.
BTouch == <<10000, 0, 20000, 10000>>
BCorner == <<10000, 10000, 20000, 20000>>
BOver == <<5000, 5000, 15000, 15000>>

OverlapBoxes == {B1, B2, B3, BTouch, BCorner, BOver}

NoBox == [has |-> FALSE, box |-> <<>>]

\* intersectBox, line 409, mutated: only a negative extent gives null.
intersectBoxTouching(a, b) ==
  LET clipped(x0, y0, x1, y1) ==
        IF x1 < x0 \/ y1 < y0 THEN NoBox
        ELSE [has |-> TRUE, box |-> <<x0, y0, x1, y1>>]
  IN clipped(Max({a[1], b[1]}), Max({a[2], b[2]}),
             Min({a[3], b[3]}), Min({a[4], b[4]}))

\* intersectBox(a, b); has is FALSE for null.
intersectBox(a, b) ==
  LET clipped(x0, y0, x1, y1) ==
        IF x1 <= x0 \/ y1 <= y0 THEN NoBox
        ELSE [has |-> TRUE, box |-> <<x0, y0, x1, y1>>]
  IN clipped(Max({a[1], b[1]}), Max({a[2], b[2]}),
             Min({a[3], b[3]}), Min({a[4], b[4]}))

InitIntersect ==
  /\ gFn = "intersectBox"
  /\ gArg \in [a : OverlapBoxes, b : OverlapBoxes]

IntersectRun ==
  /\ gPc = "input" /\ gFn = "intersectBox"
  /\ gOut' = [ab |-> intersectBox(gArg.a, gArg.b),
              ba |-> intersectBox(gArg.b, gArg.a)]
  /\ gPc' = "done"
  /\ UNCHANGED <<gFn, gArg>>
  /\ UNCHANGED restE

MaxGt == 2

\* renderEvalOverlays, line 433, mutated: an equal area replaces the best.
largerAreaOrEqual(area, bestArea) == area >= bestArea

\* renderEvalOverlays, line 433: if (area > bestArea).
largerArea(area, bestArea) == area > bestArea

RECURSIVE bestFrom(_, _, _, _)
\* The inner loop of renderEvalOverlays, lines 429-438: best after the GT
\* boxes left.
bestFrom(best, bestArea, pb, gtLeft) ==
  IF Len(gtLeft) = 0 THEN best
  ELSE LET next(inter) ==
             IF inter.has
                /\ largerArea((inter.box[3] - inter.box[1])
                               * (inter.box[4] - inter.box[2]), bestArea)
               THEN bestFrom(inter,
                             (inter.box[3] - inter.box[1])
                               * (inter.box[4] - inter.box[2]),
                             pb, Tail(gtLeft))
               ELSE bestFrom(best, bestArea, pb, Tail(gtLeft))
       IN next(intersectBox(pb, gtLeft[1]))

\* The overlap rectangle drawn for the predicted box pb, lines 427-442.
bestOverlap(pb, gtBoxes) == bestFrom(NoBox, 0, pb, gtBoxes)

InitOverlap ==
  /\ gFn = "bestOverlap"
  /\ gArg \in [pb : OverlapBoxes, gtBoxes : SeqsUpTo(OverlapBoxes, MaxGt)]

OverlapRun ==
  /\ gPc = "input" /\ gFn = "bestOverlap"
  /\ gOut' = bestOverlap(gArg.pb, gArg.gtBoxes)
  /\ gPc' = "done"
  /\ UNCHANGED <<gFn, gArg>>
  /\ UNCHANGED restE

\* ---- updateMetrics: the alignment status ----
\* const alignThreshold = 0.85, in thousandths.
alignThreshold == 850

\* The metrics of a method: word_iou (in thousandths; NaN for a value that
\* is not a number, hasIou FALSE when it is missing) and excluded.
Metrics(hasIou, iou, excluded) ==
  [hasIou |-> hasIou, word_iou |-> iou, excluded |-> excluded]

MetricsValues ==
  {Metrics(h[1], h[2], x) :
     h \in {<<FALSE, 0>>, <<TRUE, 0>>, <<TRUE, 849>>, <<TRUE, 850>>,
            <<TRUE, 1000>>, <<TRUE, NaN>>},
     x \in BOOLEAN}

\* Lines 215-216, mutated: excluded is not read.
methodAlignedIgnoringExcluded(m) ==
  LET num == IF m.hasIou THEN m.word_iou ELSE 0
  IN num # NaN /\ num >= alignThreshold

\* Lines 215-216: Number(m?.word_iou || 0) >= alignThreshold && !m?.excluded
methodAligned(m) ==
  LET num == IF m.hasIou THEN m.word_iou ELSE 0
  IN num # NaN /\ num >= alignThreshold /\ ~m.excluded

\* updateMetrics, lines 214-237: the status chip and its note.
updateMetrics(rawMetrics, indexedMetrics) ==
  LET chip(rawAligned, idxAligned) ==
        IF rawAligned /\ idxAligned
          THEN [status |-> "Aligned", variant |-> "good",
                note |-> "GT matches both methods at IoU >= 0.85."]
        ELSE IF rawAligned \/ idxAligned
          THEN [status |-> "Partial", variant |-> "warn",
                note |-> "Only one method aligns with GT at IoU >= 0.85."]
        ELSE [status |-> "Needs review", variant |-> "warn",
              note |-> "Neither method aligns at IoU >= 0.85."]
  IN chip(methodAligned(rawMetrics), methodAligned(indexedMetrics))

InitMetrics ==
  /\ gFn = "updateMetrics"
  /\ gArg \in [raw : MetricsValues, indexed : MetricsValues]

MetricsRun ==
  /\ gPc = "input" /\ gFn = "updateMetrics"
  /\ gOut' = updateMetrics(gArg.raw, gArg.indexed)
  /\ gPc' = "done"
  /\ UNCHANGED <<gFn, gArg>>
  /\ UNCHANGED restE

\* ---- the correction lookup on any list of records ----
MaxRecs == 2

\* A record the GT corrections tool saved for the prompt "Name:": no
\* example link, no item_id, no gt_status.
LabelRec == Rec("", "", "Name:", "", "J. Smith", TRUE, B3, FALSE, <<>>, "", "", "")

\* Records of document d1: linked to e1, carrying only the item_id e1,
\* linked to e2 under the label of e1, and unlinked ones with the label of
\* e1 written in two ways and with no label.
LookupRecs ==
  {Rec("e1", "e1", "Name:", "use_dataset", "linked", FALSE, <<>>, FALSE, <<>>, "", "", ""),
   Rec("e1", "", "Other", "", "by item_id", FALSE, <<>>, FALSE, <<>>, "", "", ""),
   Rec("e2", "e2", "Name:", "exclude", "linked to e2", FALSE, <<>>, FALSE, <<>>, "", "", ""),
   LabelRec,
   Rec("", "", "Name", "", "J. S.", FALSE, <<>>, FALSE, <<>>, "", "", ""),
   Rec("", "", "", "", "no label", FALSE, <<>>, FALSE, <<>>, "", "", "")}

InitLookup ==
  /\ gFn = "getCorrectionEntryForExample"
  /\ gArg \in [items : SeqsUpTo(LookupRecs, MaxRecs), ex : {"e1", "e2"}]

\* loadCorrectionsForDoc indexes the list (lines 170-184), then
\* getCorrectionEntryForExample(ex) asks the cache.
LookupRun ==
  /\ gPc = "input" /\ gFn = "getCorrectionEntryForExample"
  /\ gOut' = getCorrectionEntryForExample(
                [d \in Docs |-> IF d = Ex(gArg.ex).doc_id
                                  THEN Entry(gArg.items) ELSE NoEntry],
                gArg.ex)
  /\ gPc' = "done"
  /\ UNCHANGED <<gFn, gArg>>
  /\ UNCHANGED restE

InitGeom ==
  /\ gOut = "none"
  /\ gPc = "input"
  /\ \/ InitCollect
     \/ InitMerge
     \/ InitIntersect
     \/ InitOverlap
     \/ InitMetrics
     \/ InitLookup

\* ------------------------------------------------------------------------
\* Part F: the GT corrections tool (state, loadDoc, saveCorrections)
\* ------------------------------------------------------------------------
\* ---- bound of the reviewer's session in the tool ----
ToolMaxEvents == 2

\* buildKey: "ex:<id>", "id:<item_id>" or "label:<field_label>".
buildKey(item) ==
  IF item.exid # "" THEN <<"ex", item.exid>>
  ELSE IF item.item_id # "" THEN <<"id", item.item_id>>
  ELSE <<"label", item.field_label>>

\* buildItemFromPrompt for the prompt of example e: an empty item.
buildItemFromPrompt(e) ==
  [key |-> <<"ex", e>>, field_label |-> Ex(e).question, value |-> "",
   hasBbox |-> FALSE, bbox |-> <<>>, notes |-> "", exid |-> e,
   linkMethod |-> "", item_id |-> "", srcMethod |-> ""]

\* loadDoc after its two fetches: the items of the persisted list by key
\* (a Map: first position, last value), one item per prompt of the
\* document, then the persisted items no prompt took.  gt_status and
\* word_boxes of a persisted item are not copied.
mergedItems(d, existing) ==
  LET keyAt(i) == buildKey(existing[i])
      isFirst(i) == ~\E j \in 1..(i - 1) : keyAt(j) = keyAt(i)
      lastWith(k) ==
        existing[Max({i \in 1..Len(existing) : keyAt(i) = k})]
      entry(k, item) ==
        [key |-> k, field_label |-> item.field_label, value |-> item.value,
         hasBbox |-> item.hasBbox, bbox |-> item.bbox, notes |-> item.notes,
         exid |-> item.exid, linkMethod |-> item.linkMethod,
         item_id |-> item.item_id, srcMethod |-> item.srcMethod]
      merged(itemsByKey) ==
        LET taken(k) == \E n \in 1..Len(itemsByKey) : itemsByKey[n].key = k
            found(k) ==
              itemsByKey[CHOOSE n \in 1..Len(itemsByKey) : itemsByKey[n].key = k]
            fromPrompt(e) ==
              IF taken(<<"ex", e>>)
                THEN [found(<<"ex", e>>) EXCEPT !.exid = e]
                ELSE buildItemFromPrompt(e)
            isCustom(item) == item.key[1] # "ex" \/ Ex(item.key[2]).doc_id # d
        IN [p \in 1..Len(ExamplesOf(d)) |-> fromPrompt(ExamplesOf(d)[p])]
             \o SelectSeq(itemsByKey, isCustom)
      firsts(positions) ==
        merged([n \in 1..Len(positions) |->
                  entry(keyAt(positions[n]), lastWith(keyAt(positions[n])))])
  IN firsts(SelectSeq([i \in 1..Len(existing) |-> i], isFirst))

\* saveCorrections, lines 456-471: the items with a value and a bbox, as
\* payload records; a payload record has no gt_status and no word_boxes.
itemsToSave(items) ==
  LET complete(item) == item.value # "" /\ item.hasBbox
      payloads(kept) ==
        [i \in 1..Len(kept) |->
           Rec(kept[i].item_id, kept[i].exid, kept[i].field_label, "",
               kept[i].value, TRUE, kept[i].bbox, FALSE, <<>>,
               kept[i].srcMethod, kept[i].linkMethod, kept[i].notes)]
  IN payloads(SelectSeq(items, complete))

\* A suspended call of the tool: loadDoc awaiting its two fetches ("load")
\* or its image ("image"), saveCorrections awaiting its POST ("save").
ToolTask(kind, d) ==
  [kind |-> kind, doc |-> d, resp |-> "none", payload |-> <<>>,
   posted |-> <<>>, from |-> ""]

\* loadDoc(d) up to its Promise.all: state.docId is set at once.
loadDocStarted(d) ==
  /\ toolState' = [toolState EXCEPT !.pc = "ready", !.docId = d]
  /\ toolTasks' = Append(toolTasks, ToolTask("load", d))

\* ---- the backend ----
\* GET /api/gt/prompts and GET /api/gt/corrections of one loadDoc are
\* answered: the stored list, or an error.
ToolSrvGet ==
  \E i \in 1..Len(toolTasks) :
    /\ toolTasks[i].kind = "load" /\ toolTasks[i].resp = "none"
    /\ \E out \in {"ok", "fail"} :
         toolTasks' = [toolTasks EXCEPT ![i].resp = out,
                                        ![i].payload = toolSrv[toolTasks[i].doc]]
    /\ UNCHANGED <<toolSrv, toolState, toolLog, toolEvents>>
    /\ UNCHANGED restF

\* POST /api/gt/corrections is answered: the list is replaced, or an error.
ToolSrvPost ==
  \E i \in 1..Len(toolTasks) :
    /\ toolTasks[i].kind = "save" /\ toolTasks[i].resp = "none"
    /\ \/ /\ toolTasks' = [toolTasks EXCEPT ![i].resp = "ok"]
          /\ toolSrv' = [toolSrv EXCEPT ![toolTasks[i].doc] = toolTasks[i].posted]
       \/ /\ toolTasks' = [toolTasks EXCEPT ![i].resp = "fail"]
          /\ UNCHANGED toolSrv
    /\ UNCHANGED <<toolState, toolLog, toolEvents>>
    /\ UNCHANGED restF

\* ---- the client ----
\* loadDocs after its fetch of the document list: loadDoc of the document
\* named in the URL, else of the first one.
ToolLoadDocs ==
  \E d \in Docs :
    /\ toolState.pc = "boot"
    /\ loadDocStarted(d)
    /\ UNCHANGED <<toolSrv, toolLog, toolEvents>>
    /\ UNCHANGED restF

\* docSelect change, or docSearch input that moves the select to another
\* document: loadDoc.
ToolDocSelect ==
  \E d \in Docs :
    /\ toolState.pc = "ready"
    /\ toolEvents < ToolMaxEvents
    /\ toolEvents' = toolEvents + 1
    /\ loadDocStarted(d)
    /\ UNCHANGED <<toolSrv, toolLog>>
    /\ UNCHANGED restF

\* loadDoc resumes after Promise.all: on a rejection it ends; else it
\* replaces state.items and awaits loadImage, whose onload and onerror
\* handlers replace those an earlier loadImage is waiting on.
ToolLoaded ==
  \E i \in 1..Len(toolTasks) :
    /\ toolTasks[i].kind = "load" /\ toolTasks[i].resp # "none"
    /\ LET t == toolTasks[i]
           others == SelectSeq(RemoveAt(toolTasks, i),
                               LAMBDA u : u.kind # "image")
       IN IF t.resp = "fail"
            THEN /\ toolTasks' = RemoveAt(toolTasks, i)
                 /\ UNCHANGED <<toolState, toolLog>>
            ELSE /\ toolState' = [toolState EXCEPT
                                    !.items = mergedItems(t.doc, t.payload)]
                 /\ toolLog' = [toolLog EXCEPT !.itemsDoc = t.doc]
                 /\ toolTasks' = Append(others, ToolTask("image", t.doc))
    /\ UNCHANGED <<toolSrv, toolEvents>>
    /\ UNCHANGED restF

\* The image loads (or fails): loadDoc selects the first item of
\* state.items (or rejects).
ToolImageLoaded ==
  \E i \in 1..Len(toolTasks) :
    /\ toolTasks[i].kind = "image"
    /\ \E ok \in BOOLEAN :
         toolState' =
           IF ok /\ toolState.items # <<>>
             THEN [toolState EXCEPT !.selectedKey = toolState.items[1].key]
             ELSE toolState
    /\ toolTasks' = RemoveAt(toolTasks, i)
    /\ UNCHANGED <<toolSrv, toolLog, toolEvents>>
    /\ UNCHANGED restF

\* valueInput input: updateSelectedItem({ value }).
ToolValueInput ==
  \E v \in {"", "v"} :
    /\ toolState.pc = "ready"
    /\ toolEvents < ToolMaxEvents
    /\ toolEvents' = toolEvents + 1
    /\ toolState' =
         [toolState EXCEPT !.items =
            [n \in 1..Len(toolState.items) |->
               IF /\ toolState.items[n].key = toolState.selectedKey
                  /\ \A m \in 1..(n - 1) :
                       toolState.items[m].key # toolState.selectedKey
                 THEN [toolState.items[n] EXCEPT !.value = v]
                 ELSE toolState.items[n]]]
    /\ UNCHANGED <<toolSrv, toolTasks, toolLog>>
    /\ UNCHANGED restF

\* saveBtn click: saveCorrections up to its POST, which carries
\* state.docId and the complete items of state.items.
ToolSaveClick ==
  /\ toolState.pc = "ready"
  /\ toolEvents < ToolMaxEvents
  /\ toolEvents' = toolEvents + 1
  /\ LET saving(payloads) ==
           IF payloads = <<>>
             THEN /\ toolState' = [toolState EXCEPT !.saveStatus = "nothing"]
                  /\ UNCHANGED toolTasks
             ELSE /\ toolState' = [toolState EXCEPT !.saveStatus = "saving"]
                  /\ toolTasks' =
                       Append(toolTasks,
                              [ToolTask("save", toolState.docId) EXCEPT
                                 !.posted = payloads,
                                 !.from = toolLog.itemsDoc])
     IN saving(itemsToSave(toolState.items))
  /\ UNCHANGED <<toolSrv, toolLog>>
  /\ UNCHANGED restF

\* saveCorrections resumes after its POST: the save status is shown.
ToolSaved ==
  \E i \in 1..Len(toolTasks) :
    /\ toolTasks[i].kind = "save" /\ toolTasks[i].resp # "none"
    /\ toolState' = [toolState EXCEPT !.saveStatus =
                       IF toolTasks[i].resp = "ok" THEN "saved" ELSE "error"]
    /\ toolTasks' = RemoveAt(toolTasks, i)
    /\ UNCHANGED <<toolSrv, toolLog, toolEvents>>
    /\ UNCHANGED restF

\* The lists the backend may hold for d1 when the tool is opened: a
\* status-only record, a correction with word boxes, both.
ToolLists ==
  {<<>>,
   <<buildStatusItem("e1", "exclude", "")>>,
   <<buildCorrectionItem("e2", "indexed", "use_correction", "")>>,
   <<buildStatusItem("e1", "exclude", ""),
     buildCorrectionItem("e2", "indexed", "use_correction", "")>>}

\* The tool's script has been evaluated; pc is the position of loadDocs.
ClientF(pc) ==
  /\ toolState = [pc |-> pc, docId |-> "", items |-> <<>>,
                  selectedKey |-> <<>>, saveStatus |-> ""]
  /\ toolTasks = <<>>
  /\ toolLog = [itemsDoc |-> ""]
  /\ toolEvents = 0

InitF ==
  /\ toolSrv \in {[d \in Docs |->
                     IF d = "d1" THEN l
                     ELSE <<buildCorrectionItem("e3", "raw", "use_correction", "")>>] :
                  l \in ToolLists}
  /\ ClientF("boot")

\* The corrections tool is not open.
IdleF ==
  /\ toolSrv = [d \in Docs |-> <<>>]
  /\ ClientF("idle")

\* ---------------------------------------------------------------------------
\* Part G.  The viewer handshake of the evaluation page (eval.js).
\*
\* renderExample hands an overlay to the viewer.  When the example's document
\* is not the one named by currentDocId it parks the overlay in pendingOverlay,
\* writes pendingDocId and asks the viewer to load the document; the
\* documentLoaded listener takes both over when the viewer reports a loaded
\* document.  The listener receives no document with the event.
\*
\* The viewer is a third-party component.  Of its behaviour the model fixes
\* only this: a requested load either completes, and then documentLoaded
\* fires, or fails, and then nothing fires; loads complete in the order in
\* which they were requested; a new request either drops the loads still in
\* flight or leaves them running.  viewerSdk.shown is the document the viewer
\* has loaded, viewerSdk.loads the loads in flight, oldest first.  An overlay
\* is named by the example it was computed for.  viewerLog.drawn is the last
\* overlay drawn, with the document it was drawn on and whether it came from
\* pendingOverlay.
\* ---------------------------------------------------------------------------
ViewerMaxEvents == 4

DEFAULT_DOC == "default"

NoDrawn == [e |-> "", on |-> "", pending |-> FALSE]

\* viewerInstance.UI.loadDocument(url): the viewer starts loading docId.
loadDocument(sdk, docId, dropsEarlier) ==
  [sdk EXCEPT !.loads = IF dropsEarlier THEN <<docId>> ELSE Append(@, docId)]

\* renderExample(ex), from the choice of docId on.  viewerInstance and
\* documentViewer are set: examples are rendered only after initViewer.
ViewerRender ==
  /\ viewerEvents < ViewerMaxEvents
  /\ \E e \in ExIds : \E dropsEarlier \in BOOLEAN :
       LET docId == Ex(e).doc_id IN
         IF viewerState.currentDocId # docId
           THEN /\ viewerState' = [viewerState EXCEPT !.pendingDocId = docId,
                                                      !.pendingOverlay = e]
                /\ viewerSdk' = loadDocument(viewerSdk, docId, dropsEarlier)
                /\ UNCHANGED viewerLog
           ELSE /\ viewerLog' = [viewerLog EXCEPT
                                   !.drawn = [e |-> e, on |-> viewerSdk.shown,
                                              pending |-> FALSE]]
                /\ UNCHANGED <<viewerState, viewerSdk>>
  /\ viewerEvents' = viewerEvents + 1
  /\ UNCHANGED restG

\* The oldest load in flight completes and the documentLoaded listener runs.
ViewerDocumentLoaded ==
  /\ viewerSdk.loads # <<>>
  /\ LET doc == Head(viewerSdk.loads)
         hasDoc == viewerState.pendingDocId # ""
         hasOverlay == viewerState.pendingOverlay # ""
     IN /\ viewerSdk' = [shown |-> doc, loads |-> Tail(viewerSdk.loads)]
        /\ viewerState' =
             [currentDocId |-> IF hasDoc THEN viewerState.pendingDocId
                                         ELSE viewerState.currentDocId,
              pendingDocId |-> "",
              pendingOverlay |-> ""]
        /\ viewerLog' =
             IF hasOverlay
               THEN [viewerLog EXCEPT
                       !.drawn = [e |-> viewerState.pendingOverlay, on |-> doc,
                                  pending |-> TRUE]]
               ELSE viewerLog
  /\ UNCHANGED viewerEvents
  /\ UNCHANGED restG

\* The oldest load in flight fails: no documentLoaded, the viewer keeps what
\* it shows, the pending slots stay as they are.
ViewerLoadFailed ==
  /\ viewerSdk.loads # <<>>
  /\ viewerSdk' = [viewerSdk EXCEPT !.loads = Tail(@)]
  /\ UNCHANGED <<viewerState, viewerLog, viewerEvents>>
  /\ UNCHANGED restG

\* initViewer: the viewer is created with the initial document, DEFAULT_DOC
\* or the document of the page's doc parameter, and that load is in flight;
\* with the parameter pendingDocId names the document.
InitG ==
  /\ \E initialDoc \in {DEFAULT_DOC} \cup Docs :
       /\ viewerSdk = [shown |-> "", loads |-> <<initialDoc>>]
       /\ viewerState = [currentDocId |-> "",
                         pendingDocId |-> IF initialDoc = DEFAULT_DOC THEN ""
                                                                     ELSE initialDoc,
                         pendingOverlay |-> ""]
  /\ viewerLog = [drawn |-> NoDrawn]
  /\ viewerEvents = 0

IdleG ==
  /\ viewerSdk = [shown |-> "", loads |-> <<>>]
  /\ viewerState = [currentDocId |-> "", pendingDocId |-> "", pendingOverlay |-> ""]
  /\ viewerLog = [drawn |-> NoDrawn]
  /\ viewerEvents = 0

\* ------------------------------------------------------------------------
\* Specifications
\* ------------------------------------------------------------------------
\* The page has just been loaded: the first refreshStatus is in flight.
InitA ==
  /\ cacheReady = FALSE
  /\ preparing = FALSE
  /\ preparePromise = 0
  /\ systemStatus = "-"
  /\ runs = <<>>
  /\ waiters = {}
  /\ settled = {}
  /\ statusReqs = {StatusReq("startup", 0)}
  /\ startupPc = "status"
  /\ askPc = "idle"
  /\ asks = 0
  /\ srvReady \in BOOLEAN
  /\ calls = 0
  /\ lastReturn = -1

\* Nothing of app.js is running.
IdleA ==
  /\ cacheReady = FALSE
  /\ preparing = FALSE
  /\ preparePromise = 0
  /\ systemStatus = "-"
  /\ runs = <<>>
  /\ waiters = {}
  /\ settled = {}
  /\ statusReqs = {}
  /\ startupPc = "done"
  /\ askPc = "idle"
  /\ asks = 0
  /\ srvReady = FALSE
  /\ calls = 0
  /\ lastReturn = -1

\* No example is being resolved.
IdleB ==
  /\ rItem = Item("", "", "", "", <<>>)
  /\ rHas = FALSE
  /\ rEntry = NoRec
  /\ rOut = NoGt
  /\ rPc = "idle"

\* The lists the backend may hold for the first document at page load.
InitLists ==
  {<<>>, <<buildStatusItem("e2", "use_dataset", "")>>, <<LabelRec>>}

NoCur ==
  [currentExample |-> "", currentGtResolved |-> NoGt, stamped |-> FALSE,
   currentHasCorrection |-> FALSE, currentSavedNote |-> "",
   pendingDecision |-> ""]

NoDom ==
  [pickValue |-> "", excludeChecked |-> FALSE, noteInput |-> "",
   applyDisabled |-> FALSE, markDisabled |-> FALSE, statusNote |-> "info",
   exampleOptions |-> ""]

\* eval.js has been evaluated; pc is the position of the boot chain.
ClientC(pc) ==
  /\ tasks = <<>>
  /\ runPc = pc
  /\ correctionsCache = [d \in Docs |-> NoEntry]
  /\ reviewStatsByDoc = [d \in Docs |-> NoStats]
  /\ reviewStatsLoading = FALSE
  /\ exReviewed = [e \in ExIds |-> FALSE]
  /\ gtSaveInFlight = FALSE
  /\ cur = NoCur
  /\ dom = NoDom
  /\ userEvents = 0
  /\ loadLog = [doc |-> "", failed |-> FALSE, entry |-> NoEntry,
                requested |-> ""]

InitC ==
  /\ srvItems \in {[d \in Docs |-> IF d = "d1" THEN l ELSE <<>>] : l \in InitLists}
  /\ ClientC("boot")

IdleC ==
  /\ srvItems = [d \in Docs |-> <<>>]
  /\ ClientC("idle")

\* No box list is being deduplicated.
IdleD ==
  /\ dBoxes = <<>>
  /\ dPerm = <<>>
  /\ dOut = NoDedupe
  /\ dPc = "idle"

\* No geometry function is being called.
IdleE ==
  /\ gFn = ""
  /\ gArg = <<>>
  /\ gOut = "none"
  /\ gPc = "idle"

InitPrep == InitA /\ IdleB /\ IdleC /\ IdleD /\ IdleE /\ IdleF /\ IdleG

NextPrep ==
  \/ SrvStatus
  \/ SrvPreprocess
  \/ StartupStatus
  \/ AskClick
  \/ AskStatus
  \/ AskAnswered
  \/ AskDone
  \/ PreprocessOk
  \/ PreprocessFail
  \/ PrepareDone

SpecPrep == InitPrep /\ [][NextPrep]_vars

InitResolveAll == InitResolve /\ IdleA /\ IdleC /\ IdleD /\ IdleE /\ IdleF /\ IdleG

NextResolve ==
  \/ RenderResolve

SpecResolve == InitResolveAll /\ [][NextResolve]_vars

InitStore == InitC /\ IdleA /\ IdleB /\ IdleD /\ IdleE /\ IdleF /\ IdleG

InitDedupeAll == InitDedupe /\ IdleA /\ IdleB /\ IdleC /\ IdleE /\ IdleF /\ IdleG

NextDedupe ==
  \/ DedupeRun

SpecDedupe == InitDedupeAll /\ [][NextDedupe]_vars

InitGeomAll == InitGeom /\ IdleA /\ IdleB /\ IdleC /\ IdleD /\ IdleF /\ IdleG

NextGeom ==
  \/ CollectRun
  \/ MergeRun
  \/ IntersectRun
  \/ OverlapRun
  \/ MetricsRun
  \/ LookupRun

SpecGeom == InitGeomAll /\ [][NextGeom]_vars

NextStore ==
  \/ SrvGet
  \/ SrvPost
  \/ LoadRun
  \/ DocSelect
  \/ LoadExamplesLoaded
  \/ HydrateLoaded
  \/ ExampleSelect
  \/ Pick
  \/ ExcludeToggle
  \/ NoteInput
  \/ ApplyClick
  \/ MarkClick
  \/ SavePosted
  \/ SaveFailed
  \/ SaveTimeout
  \/ SaveLoaded

SpecStore == InitStore /\ [][NextStore]_vars

InitTool == InitF /\ IdleA /\ IdleB /\ IdleC /\ IdleD /\ IdleE /\ IdleG

NextTool ==
  \/ ToolSrvGet
  \/ ToolSrvPost
  \/ ToolLoadDocs
  \/ ToolDocSelect
  \/ ToolLoaded
  \/ ToolImageLoaded
  \/ ToolValueInput
  \/ ToolSaveClick
  \/ ToolSaved

SpecTool == InitTool /\ [][NextTool]_vars

InitViewer == InitG /\ IdleA /\ IdleB /\ IdleC /\ IdleD /\ IdleE /\ IdleF

NextViewer ==
  \/ ViewerRender
  \/ ViewerDocumentLoaded
  \/ ViewerLoadFailed

SpecViewer == InitViewer /\ [][NextViewer]_vars

\* ------------------------------------------------------------------------
\* Claims about cache preparation (SpecPrep)
\* ------------------------------------------------------------------------

\* C1: single-flight preparation.  At most one prepareCache execution is in
\* flight; an ensurePrepared call made while one is in flight returns the
\* pending promise of that execution and starts nothing; every caller
\* awaits the execution in flight and settles with that execution's result.
C1_SingleFlight ==
  /\ [](/\ Cardinality(InFlightRuns) <= 1
        /\ \A w \in waiters : w.promise = preparePromise /\ InFlight(w.promise)
        /\ \A s \in settled :
              s.promise # 0 =>
                runs[s.promise].pc = (IF s.ok THEN "ok" ELSE "fail"))
  /\ [][(calls' = calls + 1 /\ InFlightRuns # {}) =>
          (/\ preparePromise # 0
           /\ lastReturn' = preparePromise
           /\ preparePromise' = preparePromise
           /\ runs' = runs)]_vars

\* C1 witness: two callers overlapped one execution and both have settled.
C1_Witness ==
  \E s1, s2 \in settled :
    s1.promise > 0 /\ s1.promise = s2.promise /\ s1.who # s2.who

\* C2: the in-flight marker is set exactly while an execution is in flight
\* (it is cleared when the execution settles, by success or by failure); an
\* ensurePrepared call made after a failed execution starts a fresh one;
\* executions are started only by ensurePrepared calls, one per call.
C2_ClearedOnSettle ==
  /\ [](preparePromise # 0 => InFlight(preparePromise))
  /\ [][(\E k \in 1..Len(runs) : InFlight(k) /\ ~InFlight(k)')
          => preparePromise' = 0]_vars
  /\ [][(/\ calls' = calls + 1
          /\ Len(runs) > 0
          /\ runs[Len(runs)].pc = "fail")
          => (Len(runs') = Len(runs) + 1 /\ preparePromise' = Len(runs'))]_vars
  /\ [][Len(runs') # Len(runs)
          => (Len(runs') = Len(runs) + 1 /\ calls' = calls + 1)]_vars

\* C2 witness: a fresh execution is in flight after a failed one.
C2_Witness ==
  /\ Len(runs) >= 2
  /\ runs[1].pc = "fail"
  /\ preparePromise = Len(runs)
  /\ InFlight(Len(runs))

\* ------------------------------------------------------------------------
\* Claims about ground-truth resolution (SpecResolve)
\* ------------------------------------------------------------------------
Range(f) == {f[i] : i \in DOMAIN f}

NoDuplicates(f) == \A i, j \in DOMAIN f : f[i] = f[j] => i = j

\* The boxes of the item's expected words, each rounded to two decimals.
RoundedWordBoxes(ex) ==
  {[j \in DOMAIN w.box |-> roundCoord(w.box[j])] :
     w \in {x \in Range(ex.expected_words) : x.hasBox}}

\* C9: an item rendered with no correction record resolves to status
\* use_dataset, the item's expected_answer, reviewed = FALSE, and a box list
\* that holds each rounded expected-word box exactly once.
C9_NoRecordUsesDataset ==
  (rPc = "done" /\ ~rHas) =>
    /\ rOut.status = "use_dataset"
    /\ rOut.value = rItem.expected_answer
    /\ rOut.reviewed = FALSE
    /\ NoDuplicates(rOut.boxes)
    /\ Range(rOut.boxes) = RoundedWordBoxes(rItem)

\* C9 witness: resolved without a record, and deduplication removed a box.
C9_Witness ==
  /\ rPc = "done" /\ ~rHas
  /\ Len(rOut.boxes) >= 1
  /\ Len(rOut.boxes) < Len(wordBoxesOf(rItem.expected_words))

\* C10: a record whose gt_status is exclude resolves to the sentinel value
\* and to no boxes, whatever the record and the dataset carry.
C10_ExcludeHasNoBoxes ==
  (rPc = "done" /\ rHas /\ rEntry.gt_status = "exclude") =>
    /\ rOut.value = ExcludedValue
    /\ rOut.boxes = <<>>

\* C10 witness: an excluded record that carries a value, a bbox and word
\* boxes, on an item whose dataset boxes are not empty.
C10_Witness ==
  /\ rPc = "done" /\ rHas /\ rEntry.gt_status = "exclude"
  /\ rEntry.value # "" /\ rEntry.hasBbox
  /\ rEntry.hasWordBoxes /\ Len(rEntry.word_boxes) > 0
  /\ RoundedWordBoxes(rItem) # {}
  /\ rOut.status = "exclude"

\* C11: a record whose gt_status is use_dataset resolves to the value and
\* the boxes of the same item resolved with no record, and is shown as
\* reviewed.
C11_UseDatasetMatchesNoRecord ==
  (rPc = "done" /\ rHas /\ rEntry.gt_status = "use_dataset") =>
    /\ rOut.status = "use_dataset"
    /\ rOut.value = renderResolved(rItem, FALSE, NoRec).value
    /\ rOut.boxes = renderResolved(rItem, FALSE, NoRec).boxes
    /\ rOut.value = rItem.expected_answer
    /\ rOut.reviewed = TRUE

\* C11 witness: a use_dataset record that carries its own value and a usable
\* bbox, on an item that has dataset boxes.
C11_Witness ==
  /\ rPc = "done" /\ rHas /\ rEntry.gt_status = "use_dataset"
  /\ rEntry.value # "" /\ rEntry.value # rItem.expected_answer
  /\ rEntry.hasBbox /\ rEntry.bbox = B3
  /\ Len(rOut.boxes) > 0
  /\ rOut.reviewed

\* A box that cleanWordBoxes keeps: four numbers.
Usable(b) == Len(b) = 4 /\ \A j \in 1..Len(b) : b[j] # NaN

\* The record's word boxes and its single bbox, as stored.
StoredWordBoxes(c) == IF c.hasWordBoxes THEN c.word_boxes ELSE <<>>

StoredBbox(c) == IF c.hasBbox THEN <<c.bbox>> ELSE <<>>

HasUsableBoxes(c) ==
  \/ \E b \in Range(StoredWordBoxes(c)) : Usable(b)
  \/ \E b \in Range(StoredBbox(c)) : Usable(b)

BoxlessCorrection ==
  /\ rPc = "done" /\ rHas /\ rEntry.gt_status = "use_correction"
  /\ Len(StoredWordBoxes(rEntry)) = 0
  /\ ~rEntry.hasBbox

FallbackNote == "Correction missing boxes; falling back to dataset GT."

\* C13 as stated: a boxless use_correction record resolves to the dataset
\* value and the dataset boxes, never to an empty box list, with the fallback
\* note.
C13_Original ==
  BoxlessCorrection =>
    /\ rOut.value = rItem.expected_answer
    /\ Range(rOut.boxes) = RoundedWordBoxes(rItem)
    /\ Len(rOut.boxes) > 0
    /\ rOut.note.text = FallbackNote

\* C13: a boxless use_correction record resolves to status use_dataset, the
\* dataset value and the dataset boxes (each once, and at least one whenever
\* the item has an expected-word box), with the fallback note.
C13_FailsOpenToDataset ==
  BoxlessCorrection =>
    /\ rOut.status = "use_dataset"
    /\ rOut.value = rItem.expected_answer
    /\ rOut.boxes = renderResolved(rItem, FALSE, NoRec).boxes
    /\ Range(rOut.boxes) = RoundedWordBoxes(rItem)
    /\ (RoundedWordBoxes(rItem) # {} => Len(rOut.boxes) > 0)
    /\ rOut.note.text = FallbackNote

\* C13 witness: a boxless correction with its own value fell back to an item
\* that has dataset boxes.
C13_Witness ==
  /\ BoxlessCorrection
  /\ rEntry.value # "" /\ rEntry.value # rItem.expected_answer
  /\ rItem.expected_answer # ""
  /\ Len(rOut.boxes) > 0
  /\ rOut.note.text = FallbackNote

\* C14: a resolution of status use_correction has a record, at least one box,
\* and only boxes that the record stores.
C14_CorrectionHasOwnBoxes ==
  (rPc = "done" /\ rOut.status = "use_correction") =>
    /\ rHas
    /\ Len(rOut.boxes) > 0
    /\ Range(rOut.boxes) \subseteq
         Range(StoredWordBoxes(rEntry)) \cup Range(StoredBbox(rEntry))

\* C14 witness: a use_correction resolution whose boxes differ from the
\* boxes of the dataset, which are not empty.
C14_Witness ==
  /\ rPc = "done" /\ rOut.status = "use_correction"
  /\ RoundedWordBoxes(rItem) # {}
  /\ Range(rOut.boxes) \cap RoundedWordBoxes(rItem) = {}

\* C15: the decision tag of a use_correction resolution is raw when the
\* record's links.method is raw, indexed when it is indexed, else custom.
C15_DecisionFromLinksMethod ==
  (rPc = "done" /\ rOut.status = "use_correction") =>
    rOut.decision = IF rEntry.linkMethod = "raw" THEN "raw"
                    ELSE IF rEntry.linkMethod = "indexed" THEN "indexed"
                    ELSE "custom"

\* The record was treated as use_correction: resolved to it, or fallen back
\* from it for want of boxes.
TreatedAsCorrection ==
  rOut.status = "use_correction" \/ rOut.note.text = FallbackNote

\* The record was treated as use_dataset.
TreatedAsDataset ==
  rOut.status = "use_dataset" /\ rOut.note.text = "Using dataset ground truth."

\* C30 as stated: a record without gt_status is treated as use_correction
\* when it has a value or a bbox, and as use_dataset, reviewed, when it has
\* neither.
C30_Original ==
  (rPc = "done" /\ rHas /\ rEntry.gt_status = "") =>
    /\ rOut.reviewed = TRUE
    /\ IF rEntry.value # "" \/ rEntry.hasBbox
         THEN TreatedAsCorrection ELSE TreatedAsDataset

\* C30: a record without gt_status is treated as use_correction when it has
\* a value, a bbox or a word_boxes list (resolving to use_correction when it
\* has a usable box and falling back to the dataset otherwise), and as
\* use_dataset when it has none of them; it is reviewed in both cases.
C30_LegacyInference ==
  (rPc = "done" /\ rHas /\ rEntry.gt_status = "") =>
    /\ rOut.reviewed = TRUE
    /\ IF rEntry.value # "" \/ rEntry.hasBbox \/ rEntry.hasWordBoxes
         THEN IF HasUsableBoxes(rEntry)
                THEN rOut.status = "use_correction"
                ELSE rOut.status = "use_dataset"
                     /\ rOut.note.text = FallbackNote
         ELSE TreatedAsDataset

\* C30 witness: a record with word boxes only, no gt_status, no value and
\* no bbox, resolved to use_correction.
C30_Witness ==
  /\ rPc = "done" /\ rHas /\ rEntry.gt_status = ""
  /\ rEntry.value = "" /\ ~rEntry.hasBbox
  /\ rEntry.hasWordBoxes
  /\ rOut.status = "use_correction"
  /\ rOut.boxes = <<B1, B2>>

\* ---- Part C claims ----
\* The GETs for document d whose response has not reached the client.
GetsInFlight(d) ==
  {i \in 1..Len(tasks) : tasks[i].req = "GET" /\ tasks[i].doc = d
                         /\ tasks[i].resp = "none"}

\* C3: no two GET /api/gt/corrections requests for the same document are in
\* flight at the same time.
C3_OneGetPerDoc == \A d \in Docs : Cardinality(GetsInFlight(d)) <= 1

\* The save handler's suspended call, if it is at pc.
SaveAt(ts, pc) ==
  {ts[i] : i \in {j \in 1..Len(ts) : ts[j].kind = "sv" /\ ts[j].pc = pc}}

\* C4: when saveCorrection(docId, item) returns after a successful POST, the
\* cache entry of docId, which every later read uses, holds the saved item.
C4_ReadYourWrites ==
  [][\A t \in SaveAt(tasks, "load2") :
       (t.resp # "none" /\ SaveAt(tasks', "load2") = {})
         => \E k \in 1..Len(correctionsCache'[t.doc].items) :
              correctionsCache'[t.doc].items[k] = t.item]_vars

\* Two records have the identity saveCorrection matches on.
SameSaveIdentity(r, item) == exIdOf(item) # "" /\ exIdOf(r) = exIdOf(item)

\* C5: a successful save leaves the persisted list with the saved item in it
\* and with every record of another identity still present and unchanged.
C5_SaveIsUpsert ==
  [][\A d \in Docs : srvItems'[d] # srvItems[d] =>
       \E i \in 1..Len(tasks) :
         /\ tasks[i].req = "POST" /\ tasks[i].doc = d /\ tasks[i].resp = "none"
         /\ tasks[i].item \in Range(srvItems'[d])
         /\ \A k \in 1..Len(srvItems[d]) :
              ~SameSaveIdentity(srvItems[d][k], tasks[i].item)
                => srvItems[d][k] \in Range(srvItems'[d])]_vars

\* The identity key of a persisted record: links.eval_example_id when
\* present, else the normalized field_label.
IdentityKey(r) ==
  IF r.exid # "" THEN <<"example", r.exid>>
  ELSE <<"label", normalizeLabel(r.field_label)>>

\* C6: the persisted list of every document holds at most one record per
\* identity key.
C6_OneRecordPerKey ==
  \A d \in Docs : \A i, j \in 1..Len(srvItems[d]) :
    IdentityKey(srvItems[d][i]) = IdentityKey(srvItems[d][j]) => i = j

\* C7: the click that starts a save leaves the correction cache as it is, and
\* when the POST has failed the handler shows the error, releases the save
\* guard and leaves the cache, still holding the document's entry, as it is.
C7_FailedSaveKeepsCache ==
  [][/\ (SaveAt(tasks, "post") = {} /\ SaveAt(tasks', "post") # {}
           /\ SaveAt(tasks, "load1") = {})
          => correctionsCache' = correctionsCache
     /\ \A t \in SaveAt(tasks, "post") :
          (t.resp = "fail" /\ SaveAt(tasks', "post") = {})
            => /\ correctionsCache' = correctionsCache
               /\ \A d \in Docs : correctionsCache[d].has
                                    => correctionsCache'[d].has
               /\ dom'.statusNote = "error"
               /\ ~gtSaveInFlight'
               /\ srvItems' = srvItems]_vars

\* A save whose POST failed has been reported, on a document with records.
C7_Witness ==
  /\ dom.statusNote = "error"
  /\ ~gtSaveInFlight
  /\ cur.currentExample # ""
  /\ Len(correctionsCache[Ex(cur.currentExample).doc_id].items) > 0

\* C8: a loadCorrectionsForDoc whose GET failed resolved to an entry with no
\* items and empty indices, and while that entry is the cached one every
\* example of the document resolves as unreviewed dataset ground truth.
C8_FailedLoadIsEmpty ==
  loadLog.failed =>
    /\ loadLog.entry.has
    /\ loadLog.entry.items = <<>>
    /\ loadLog.entry.byExample = EmptyMap
    /\ loadLog.entry.byLabel = EmptyMap
    /\ correctionsCache[loadLog.doc] = loadLog.entry =>
         \A e \in ExIds : Ex(e).doc_id = loadLog.doc =>
           LET ce == getCorrectionEntryForExample(correctionsCache, e)
               gt == renderResolved(Ex(e), ce.has, ce.rec)
           IN ~ce.has /\ gt.status = "use_dataset" /\ ~gt.reviewed
                /\ gt.value = Ex(e).expected_answer

\* The GET of a document with persisted records failed and the review flow
\* went on: its example is shown, unreviewed.
C8_Witness ==
  /\ loadLog.failed
  /\ srvItems[loadLog.doc] # <<>>
  /\ correctionsCache[loadLog.doc] = loadLog.entry
  /\ cur.currentExample # ""
  /\ Ex(cur.currentExample).doc_id = loadLog.doc
  /\ cur.stamped
  /\ ~cur.currentGtResolved.reviewed
  /\ cur.currentGtResolved.status = "use_dataset"

\* The gt_status the cache records for example e: "" when it has no record
\* (or the record carries none).
CachedStatus(cache, e) ==
  LET statusOf(ce) == IF ce.has THEN ce.rec.gt_status ELSE ""
  IN statusOf(getCorrectionEntryForExample(cache, e))

\* A step of saveCorrection: a save was started, its POST was answered or
\* handled, or its reload was handled.
SaveStep ==
  \/ SaveAt(tasks', "post") # SaveAt(tasks, "post")
  \/ SaveAt(tasks', "load2") # SaveAt(tasks, "load2")

\* C16: the gt_status recorded for an item, in the persisted list and in the
\* cache of its document, changes only in the steps of a reviewer's save: a
\* status the cache holds is never changed or dropped by a load, a render, a
\* navigation, a note edit or a pending selection.
C16_StatusChangesOnlyOnSave ==
  [][/\ srvItems' # srvItems => SaveStep
     /\ \A e \in ExIds :
          (/\ getCorrectionEntryForExample(correctionsCache, e).has
           /\ CachedStatus(correctionsCache', e)
                # CachedStatus(correctionsCache, e))
            => SaveStep]_vars

\* C17: no step changes a field of an evaluation item of the document index.
C17_ItemsReadOnly == [][exReviewed' = exReviewed]_vars

\* The records a lookup map references.
MapRange(f) == {f[k] : k \in DOMAIN f}

\* C18: every cache entry is complete and consistent: its two indices
\* reference only records of its own items list under their own keys, every
\* record with an example id or a label is reachable through the index for
\* its key, and a document with no entry has no items and no indices.
C18_EntryConsistent ==
  \A d \in Docs :
    LET c == correctionsCache[d]
    IN /\ \A k \in DOMAIN c.byExample :
            c.byExample[k] \in Range(c.items) /\ exIdOf(c.byExample[k]) = k
       /\ \A k \in DOMAIN c.byLabel :
            /\ c.byLabel[k] \in Range(c.items)
            /\ exIdOf(c.byLabel[k]) = ""
            /\ normalizeLabel(c.byLabel[k].field_label) = k
       /\ \A r \in Range(c.items) :
            IF exIdOf(r) # "" THEN exIdOf(r) \in DOMAIN c.byExample
            ELSE normalizeLabel(r.field_label) # ""
                   => normalizeLabel(r.field_label) \in DOMAIN c.byLabel
       /\ ~c.has => (c.items = <<>> /\ c.byExample = EmptyMap
                       /\ c.byLabel = EmptyMap)

\* C18 witness: while a save is waiting for its POST, the entry of its
\* document holds records in both indices.
C18_Witness ==
  \E t \in SaveAt(tasks, "post") :
    /\ correctionsCache[t.doc].has
    /\ DOMAIN correctionsCache[t.doc].byExample # {}
    /\ DOMAIN correctionsCache[t.doc].byLabel # {}

\* C19: when the 8-second timer fires on a save whose POST is unanswered,
\* the handler shows the abort message (not the message of a failed POST),
\* leaves the correction cache as it is and releases the save guard, so that
\* the save handlers, which return early only without a current example or
\* with a save in flight, accept the next attempt.
C19_TimeoutReleasesSave ==
  [][\A t \in SaveAt(tasks, "post") :
       (t.resp = "none" /\ SaveAt(tasks', "post") = {})
         => /\ dom'.statusNote = "aborted"
            /\ dom'.statusNote # "error"
            /\ correctionsCache' = correctionsCache
            /\ ~gtSaveInFlight'
            /\ cur'.currentExample # ""]_vars

\* C19 witness: after a save timed out the reviewer's next save was started
\* and is waiting for its POST, the abort message still on display.
C19_Witness ==
  /\ dom.statusNote = "aborted"
  /\ gtSaveInFlight
  /\ SaveAt(tasks, "post") # {}
  /\ userEvents = 2

\* ------------------------------------------------------------------------
\* Claims about box deduplication (SpecDedupe)
\* ------------------------------------------------------------------------
\* C20: dedupeBoxes gives the same list for a box list and for every
\* permutation of it, gives its own result back when applied to it, and its
\* result holds no box twice.
C20_DedupeCanonical ==
  dPc = "done" =>
    /\ dOut.shuffled = dOut.plain
    /\ dOut.twice = dOut.plain
    /\ NoDuplicates(dOut.plain)

\* C20 witness: the permutation moved boxes, a duplicate was removed, and
\* the result is in serialization order ("[100" before "[12"), not in the
\* order of X.
C20_Witness ==
  /\ dPc = "done"
  /\ dBoxes = <<B2, BWide, B2>>
  /\ dPerm = <<2, 3, 1>>
  /\ permuted(dBoxes, dPerm) # dBoxes
  /\ dOut.plain = <<BWide, B2>>

\* A box with its corners in order.
Ordered(b) == Len(b) = 4 => (b[1] <= b[3] /\ b[2] <= b[4])

\* C21: every box that normalization returns, through dedupeBoxes, has
\* x0 <= x1 and y0 <= y1, also when the input box had its corners exchanged.
C21_NormalizedOrdered ==
  dPc = "done" => \A b \in Range(dOut.plain) : Ordered(b)

\* ------------------------------------------------------------------------
\* Claims about box geometry and scoring (SpecGeom)
\* ------------------------------------------------------------------------
Called(fn) == gPc = "done" /\ gFn = fn

\* A quad entry with exactly 8 finite coordinates.
WellFormedQuad(q) ==
  /\ q.kind = "array"
  /\ Len(q.nums) = 8
  /\ \A j \in 1..Len(q.nums) : q.nums[j] # NaN /\ q.nums[j] # Infinity

\* The min/max box of a quad.
QuadBox(n) ==
  <<Min({n[1], n[3], n[5], n[7]}), Min({n[2], n[4], n[6], n[8]}),
    Max({n[1], n[3], n[5], n[7]}), Max({n[2], n[4], n[6], n[8]})>>

\* C22: collectBoxes never throws and returns the min/max boxes of exactly
\* the entries that have 8 coordinates, all finite, in their order.
C22_CollectDropsMalformed ==
  Called("collectBoxes") =>
    /\ ~gOut.threw
    /\ gOut.boxes =
         LET good == SelectSeq(gArg, WellFormedQuad)
         IN [i \in 1..Len(good) |-> QuadBox(good[i].nums)]

\* ---- mergeBoxesToLines ----
\* A box with every coordinate rounded to two decimals.
Rounded(b) == [j \in DOMAIN b |-> roundCoord(b[j])]

\* The boxes handed to mergeBoxesToLines, rounded.
MergeInput == {Rounded(gArg[i]) : i \in DOMAIN gArg}

\* Twice the median of the heights of the boxes handed over.
ArgMedianTwice ==
  LET hs == SortSeq([i \in DOMAIN gArg |->
                       Max({1000, Rounded(gArg[i])[4] - Rounded(gArg[i])[2]})],
                    LAMBDA a, b : a < b)
      n == Len(hs)
  IN IF n % 2 = 0 THEN hs[n \div 2] + hs[n \div 2 + 1]
     ELSE 2 * hs[(n + 1) \div 2]

\* gapTol = max(10, 2 * median height), in thousandths.
ArgGapTol == Max({10000, ArgMedianTwice})

\* Two boxes whose vertical centres differ by more than
\* yTol = max(2, 0.6 * median height).
FartherThanYTol(a, b) ==
  5 * Abs((a[2] + a[4]) - (b[2] + b[4])) > Max({20000, 3 * ArgMedianTwice})

\* The smallest box around a set of boxes.
Hull(S) ==
  <<Min({b[1] : b \in S}), Min({b[2] : b \in S}),
    Max({b[3] : b \in S}), Max({b[4] : b \in S})>>

\* Every box of S that does not start at the left end starts less than tol
\* (or, with orEqual, at most tol) right of the right edge of a box of S
\* that starts further left.
Chained(S, tol, orEqual) ==
  \A b \in S :
    \/ \A c \in S : b[1] <= c[1]
    \/ \E c \in S : /\ c[1] < b[1]
                    /\ \/ b[1] - c[3] < tol
                       \/ orEqual /\ b[1] - c[3] = tol

\* The boxes share one vertical centre and their horizontal ranges are
\* contiguous, each gap below gapTol.
OneContiguousLine ==
  /\ gArg # <<>>
  /\ \A a, b \in MergeInput : a[2] + a[4] = b[2] + b[4]
  /\ Chained(MergeInput, ArgGapTol, FALSE)

\* C23: mergeBoxesToLines of a non-empty list of boxes with one vertical
\* centre and contiguous horizontal ranges returns one box, the smallest box
\* around the (rounded) input.
C23_OneLineOneBox ==
  (Called("mergeBoxesToLines") /\ OneContiguousLine) =>
    gOut.merged = <<Hull(MergeInput)>>

\* C23 witness: three boxes of one line, two of them equal after rounding,
\* with a gap between the others, came back as one box.
C23_Witness ==
  /\ Called("mergeBoxesToLines") /\ OneContiguousLine
  /\ gArg = <<B2, B1n, B1>>
  /\ gOut.merged = <<<<0, 0, 22000, 10000>>>>

\* The ways to split the positions of the input in two groups whose
\* vertical centres are pairwise more than yTol apart.
SeparatedGroups ==
  {A \in SUBSET (DOMAIN gArg) :
     /\ A # {} /\ A # DOMAIN gArg
     /\ \A i \in A : \A j \in (DOMAIN gArg) \ A :
          FartherThanYTol(Rounded(gArg[i]), Rounded(gArg[j]))}

\* C24: when the input consists of two groups whose vertical centres are
\* more than yTol apart, mergeBoxesToLines returns at least two boxes and no
\* cluster, hence no returned box, is built from boxes of both groups.
C24_SeparatedLinesStayApart ==
  Called("mergeBoxesToLines") =>
    \A A \in SeparatedGroups :
      /\ Len(gOut.merged) >= 2
      /\ \A k \in DOMAIN gOut.clusters :
           \/ \A i \in A : Rounded(gArg[i]) \notin Range(gOut.clusters[k])
           \/ \A j \in (DOMAIN gArg) \ A :
                Rounded(gArg[j]) \notin Range(gOut.clusters[k])

\* C24 witness: a line of two boxes and a box one line below came back as
\* two boxes.
C24_Witness ==
  /\ Called("mergeBoxesToLines")
  /\ gArg = <<BLow, B2, B1>>
  /\ {1} \in SeparatedGroups
  /\ gOut.merged = <<<<0, 0, 22000, 10000>>, BLow>>

\* C28: inside every cluster, taken in ascending left-edge order, the
\* returned rectangles partition the boxes: each rectangle is the smallest
\* box around the cluster boxes lying in it, these start at most gapTol
\* right of a box further left in the same rectangle, and each rectangle
\* starts more than gapTol right of the right edge of the one before it.
C28_SegmentsSplitAtGaps ==
  Called("mergeBoxesToLines") =>
    \A k \in DOMAIN gOut.segments :
      LET segs == gOut.segments[k]
          boxes == Range(gOut.clusters[k])
          inside(i) == {b \in boxes : segs[i][1] <= b[1] /\ b[3] <= segs[i][3]}
      IN /\ Len(segs) >= 1
         /\ \A b \in boxes : \E i \in DOMAIN segs : b \in inside(i)
         /\ \A i \in DOMAIN segs :
              /\ inside(i) # {}
              /\ segs[i] = Hull(inside(i))
              /\ Chained(inside(i), ArgGapTol, TRUE)
         /\ \A i \in 1..(Len(segs) - 1) :
              segs[i + 1][1] - segs[i][3] > ArgGapTol

\* C28 witness: in one cluster a box exactly gapTol right of the running
\* rectangle extended it and a box further right started a new rectangle.
C28_Witness ==
  /\ Called("mergeBoxesToLines")
  /\ gArg = <<BWide, BEdge, B2>>
  /\ Len(gOut.clusters) = 1
  /\ gOut.merged = <<<<12000, 0, 52000, 10000>>, BWide>>

\* ---- intersectBox, the overlap overlay, the alignment status ----
\* The extent of the overlap of two boxes on the x and on the y axis.
OverlapX(a, b) == Min({a[3], b[3]}) - Max({a[1], b[1]})

OverlapY(a, b) == Min({a[4], b[4]}) - Max({a[2], b[2]})

\* C25: intersectBox gives the same result for (a, b) and (b, a); it gives
\* null unless the boxes overlap with positive extent on both axes, and
\* otherwise the rectangle [max x0, max y0, min x1, min y1].
C25_IntersectSymmetric ==
  Called("intersectBox") =>
    /\ gOut.ab = gOut.ba
    /\ gOut.ab.has <=> (OverlapX(gArg.a, gArg.b) > 0 /\ OverlapY(gArg.a, gArg.b) > 0)
    /\ gOut.ab.has =>
         gOut.ab.box = <<Max({gArg.a[1], gArg.b[1]}), Max({gArg.a[2], gArg.b[2]}),
                         Min({gArg.a[3], gArg.b[3]}), Min({gArg.a[4], gArg.b[4]})>>
    /\ ~gOut.ab.has => gOut.ab.box = <<>>

\* C25 witness: two different boxes that overlap in part.
C25_Witness ==
  /\ Called("intersectBox")
  /\ gArg.a = BOver /\ gArg.b = B1
  /\ gOut.ab.has
  /\ gOut.ab.box = <<5000, 5000, 10000, 10000>>

\* A method counts as aligned: a numeric word_iou of at least 0.85 and not
\* excluded.
Aligned(m) ==
  /\ m.hasIou /\ m.word_iou # NaN /\ m.word_iou >= 850
  /\ ~m.excluded

\* C26: the status is Aligned when both methods are aligned (word_iou >=
\* 0.85 and not excluded), Partial when exactly one is, Needs review when
\* none is.
C26_AlignmentStatus ==
  Called("updateMetrics") =>
    gOut.status =
      IF Aligned(gArg.raw) /\ Aligned(gArg.indexed) THEN "Aligned"
      ELSE IF Aligned(gArg.raw) \/ Aligned(gArg.indexed) THEN "Partial"
      ELSE "Needs review"

\* C26 witness: an excluded method with word_iou 1 did not count, the other
\* method sits exactly on the threshold.
C26_Witness ==
  /\ Called("updateMetrics")
  /\ gArg.raw = Metrics(TRUE, 1000, TRUE)
  /\ gArg.indexed = Metrics(TRUE, 850, FALSE)
  /\ gOut.status = "Partial"

\* The positions of the GT boxes that intersect the predicted box.
Intersecting ==
  {i \in DOMAIN gArg.gtBoxes :
     OverlapX(gArg.pb, gArg.gtBoxes[i]) > 0
       /\ OverlapY(gArg.pb, gArg.gtBoxes[i]) > 0}

OverlapArea(i) ==
  OverlapX(gArg.pb, gArg.gtBoxes[i]) * OverlapY(gArg.pb, gArg.gtBoxes[i])

\* C29: the overlap rectangle of a predicted box is null when no GT box
\* intersects it, and else its intersection with the first of the GT boxes
\* whose intersection has the largest area.
C29_BestOverlap ==
  Called("bestOverlap") =>
    IF Intersecting = {} THEN ~gOut.has
    ELSE LET first == Min({i \in Intersecting :
                             \A j \in Intersecting :
                               OverlapArea(j) <= OverlapArea(i)})
             g == gArg.gtBoxes[first]
         IN /\ gOut.has
            /\ gOut.box = <<Max({gArg.pb[1], g[1]}), Max({gArg.pb[2], g[2]}),
                            Min({gArg.pb[3], g[3]}), Min({gArg.pb[4], g[4]})>>

\* C29 witness: two GT boxes intersect the predicted box with equal area
\* and the first one was chosen.
C29_Witness ==
  /\ Called("bestOverlap")
  /\ gArg.pb = B3
  /\ gArg.gtBoxes = <<B2, B1>>
  /\ gOut.has /\ gOut.box = B2

\* ---- the correction lookup ----
\* The positions of the records linked to example e: by
\* links.eval_example_id, else by item_id.
LinkedTo(items, e) ==
  {i \in DOMAIN items :
     \/ items[i].exid = e
     \/ items[i].exid = "" /\ items[i].item_id = e}

\* The positions of the records with no link and the label of example e.
LabelledFor(items, e) ==
  {i \in DOMAIN items :
     /\ items[i].exid = "" /\ items[i].item_id = ""
     /\ normalizeLabel(items[i].field_label) # ""
     /\ normalizeLabel(items[i].field_label) = normalizeLabel(Ex(e).question)}

\* C27: the lookup returns the record linked to the example's id when the
\* list holds one (the last such record); otherwise the record without a
\* link whose normalized field_label is the example's normalized question
\* (the last such record); otherwise null.  A record linked to another
\* example is not returned.
C27_LookupByIdThenLabel ==
  Called("getCorrectionEntryForExample") =>
    /\ IF LinkedTo(gArg.items, gArg.ex) # {}
         THEN gOut.has
              /\ gOut.rec = gArg.items[Max(LinkedTo(gArg.items, gArg.ex))]
       ELSE IF LabelledFor(gArg.items, gArg.ex) # {}
         THEN gOut.has
              /\ gOut.rec = gArg.items[Max(LabelledFor(gArg.items, gArg.ex))]
       ELSE ~gOut.has
    /\ gOut.has => exIdOf(gOut.rec) \in {"", gArg.ex}

\* C27 witness: the list holds a record linked to e2 under the label of e1
\* and an unlinked record with that label; e1 got the unlinked one.
C27_Witness ==
  /\ Called("getCorrectionEntryForExample")
  /\ gArg.ex = "e1"
  /\ Len(gArg.items) = 2
  /\ gArg.items[1] = LabelRec
  /\ gArg.items[2].exid = "e2"
  /\ gOut.has /\ gOut.rec = LabelRec

\* ------------------------------------------------------------------------
\* Claims about the reviewer's session (SpecStore), continued
\* ------------------------------------------------------------------------
SavesInFlight == {i \in 1..Len(tasks) : tasks[i].kind = "sv"}

\* C31: at most one save started by Apply decision or Mark reviewed is in
\* flight at any time, no step taken while gtSaveInFlight is true starts a
\* save, and gtSaveInFlight is true exactly while a save handler is
\* suspended: it is false again once the attempt has succeeded, failed,
\* timed out or returned early.
C31_NoOverlappingSaves ==
  /\ Cardinality(SavesInFlight) <= 1
  /\ gtSaveInFlight <=> SavesInFlight # {}

\* C31 witness: a save is waiting for its POST while Mark reviewed is
\* enabled on a selected example, so that a click on it is delivered and
\* returns at the gtSaveInFlight test.
C31_Witness ==
  /\ gtSaveInFlight
  /\ SaveAt(tasks, "post") # {}
  /\ ~dom.markDisabled
  /\ cur.currentExample # ""
  /\ dom.statusNote # "aborted"

\* C33: whenever no save is in flight and an example is selected, Mark
\* reviewed is enabled (its disabled state equals gtSaveInFlight or no
\* example); a save attempt that has settled leaves it enabled.
C33_MarkEnabledWhenIdle ==
  (~gtSaveInFlight /\ cur.currentExample # "") => ~dom.markDisabled

\* The backend holds a record that the lookup finds for example e.
Persisted(e) ==
  getCorrectionEntryForExample(
    [d \in Docs |-> Entry(srvItems[d])], e).has

\* C32: once the persisted correction of an example has been cached and the
\* example is rendered as reviewed, every later renderExample of that
\* example resolves it with reviewed = true, also while a save for its
\* document is suspended between correctionsCache.delete and the end of the
\* reload; the example never reverts to the unreviewed view.
C32_ReviewedNeverReverts ==
  [][\A e \in ExIds :
       ( /\ cur.currentExample = e /\ cur.stamped
         /\ cur.currentGtResolved.reviewed
         /\ Persisted(e)
         /\ cur'.currentExample = e /\ cur'.stamped )
       => cur'.currentGtResolved.reviewed]_vars

\* The examples of document d that have a correction entry in the cache.
CachedReviewed(cache, d) ==
  {e \in ExIds : Ex(e).doc_id = d /\ getCorrectionEntryForExample(cache, e).has}

\* C35: when the save for a document D settles and leaves no operation
\* pending, reviewStatsByDoc[D].reviewedCount is the number of D's examples
\* that have a correction entry in the cache, also when the reviewer opened
\* another example or document while the save was in flight.
C35_StatsMatchCache ==
  [][\A i \in SavesInFlight :
       tasks' = <<>> =>
         reviewStatsByDoc'[tasks[i].doc].reviewedCount =
           Cardinality(CachedReviewed(correctionsCache', tasks[i].doc))]_vars

\* The loadExamplesForDoc calls that have not settled.
LoadsPending == {i \in 1..Len(tasks) : tasks[i].kind = "le"}

\* C36: once every loadExamplesForDoc call has settled, the example list
\* and the rendered example belong to the document requested last,
\* whichever of the correction loads finished first.
C36_LastRequestWins ==
  (LoadsPending = {} /\ loadLog.requested # "") =>
    /\ dom.exampleOptions = loadLog.requested
    /\ cur.currentExample # ""
    /\ Ex(cur.currentExample).doc_id = loadLog.requested

\* ------------------------------------------------------------------------
\* Claims about the helper functions (SpecGeom), continued
\* ------------------------------------------------------------------------
\* Box b lies inside rectangle r.
Inside(b, r) == r[1] <= b[1] /\ r[2] <= b[2] /\ b[3] <= r[3] /\ b[4] <= r[4]

\* The ways of assigning the boxes handed to mergeBoxesToLines to the
\* rectangles it returned.
MergeAssignments == [DOMAIN gArg -> DOMAIN gOut.merged]

\* C40: every normalized input box of mergeBoxesToLines lies inside one of
\* the rectangles returned; the input boxes can be assigned to the
\* rectangles so that every rectangle is the bounding box of the boxes
\* assigned to it; there are at most as many rectangles as input boxes, and
\* none exactly when the input is empty.
C40_MergeCoversInput ==
  Called("mergeBoxesToLines") =>
    /\ \A i \in DOMAIN gArg :
         \E r \in DOMAIN gOut.merged : Inside(Rounded(gArg[i]), gOut.merged[r])
    /\ \E f \in MergeAssignments :
         \A r \in DOMAIN gOut.merged :
           /\ \E i \in DOMAIN gArg : f[i] = r
           /\ gOut.merged[r] =
                Hull({Rounded(gArg[i]) : i \in {j \in DOMAIN gArg : f[j] = r}})
    /\ Len(gOut.merged) <= Len(gArg)
    /\ gOut.merged = <<>> <=> gArg = <<>>

\* C40 witness: three boxes came back as two rectangles, one of them larger
\* than each of the boxes inside it.
C40_Witness ==
  /\ Called("mergeBoxesToLines")
  /\ Len(gArg) = 3 /\ Len(gOut.merged) = 2
  /\ \E r \in DOMAIN gOut.merged :
       /\ \A i \in DOMAIN gArg : gOut.merged[r] # Rounded(gArg[i])
       /\ \E i, j \in DOMAIN gArg :
            /\ Rounded(gArg[i]) # Rounded(gArg[j])
            /\ Inside(Rounded(gArg[i]), gOut.merged[r])
            /\ Inside(Rounded(gArg[j]), gOut.merged[r])

\* ------------------------------------------------------------------------
\* Claims about cache preparation (SpecPrep), continued
\* ------------------------------------------------------------------------
\* Nothing of app.js is pending: no prepareCache execution, no status
\* request, no askQuestion, and the page-start chain has ended.
QuietA ==
  /\ InFlightRuns = {}
  /\ statusReqs = {}
  /\ waiters = {}
  /\ askPc = "idle"
  /\ startupPc = "done"

\* C34: the chip shows "preparing..." only while a preparation is in
\* flight; once the preparations started by ensurePrepared have settled and
\* nothing else is pending, the chip shows the settled readiness state.
C34_ChipSettles ==
  /\ systemStatus = "preparing..." => InFlightRuns # {}
  /\ QuietA => systemStatus \in {"ready", "needs attention", "status unavailable"}

\* ------------------------------------------------------------------------
\* Claims about the GT corrections tool (SpecTool)
\* ------------------------------------------------------------------------
ToolLoadsPending == {i \in 1..Len(toolTasks) : toolTasks[i].kind = "load"}

ToolSaves == {toolTasks[i] : i \in {j \in 1..Len(toolTasks) :
                                      toolTasks[j].kind = "save"}}

\* C37: once the loads of the corrections tool have settled, state.items
\* holds the items of state.docId, the document requested last, and
\* saveCorrections never posts the items of one document under the doc_id
\* of another.
C37_ItemsBelongToDoc ==
  /\ (ToolLoadsPending = {} /\ toolLog.itemsDoc # "")
       => toolLog.itemsDoc = toolState.docId
  /\ \A t \in ToolSaves : t.from = t.doc

\* The record keeps the key, gt_status and word_boxes of r.
SameReview(r, kept) ==
  /\ buildKey(kept) = buildKey(r)
  /\ kept.gt_status = r.gt_status
  /\ kept.hasWordBoxes = r.hasWordBoxes
  /\ kept.word_boxes = r.word_boxes

\* C38: when the backend stores a list that saveCorrections posted for the
\* document its items were loaded from, every record persisted for that
\* document before, status-only records included, is still present, with
\* its gt_status and word_boxes unchanged.
C38_SavePreservesRecords ==
  [][\A t \in ToolSaves :
       (t.from = t.doc /\ t.resp = "none" /\ toolSrv' # toolSrv
          /\ toolSrv'[t.doc] = t.posted)
       => \A k \in 1..Len(toolSrv[t.doc]) :
            \E m \in 1..Len(toolSrv'[t.doc]) :
              SameReview(toolSrv[t.doc][k], toolSrv'[t.doc][m])]_vars

\* ------------------------------------------------------------------------
\* Claims about the viewer handshake (SpecViewer)
\* ------------------------------------------------------------------------
\* C39: currentDocId always names the document the viewer has loaded; an
\* overlay taken from pendingOverlay is drawn only on the document it was
\* computed for; and once the loads have settled no overlay stays parked for
\* the document that is loaded.  This is to hold also when a second document
\* is requested before an earlier load, the initial one included, has fired
\* documentLoaded.
C39_CurrentDocIsLoaded ==
  viewerState.currentDocId # "" => viewerState.currentDocId = viewerSdk.shown

C39_PendingOverlayOnItsDoc ==
  viewerLog.drawn.pending => Ex(viewerLog.drawn.e).doc_id = viewerLog.drawn.on

C39_OverlayNotLeftParked ==
  (viewerSdk.loads = <<>> /\ viewerState.pendingOverlay # "")
    => Ex(viewerState.pendingOverlay).doc_id # viewerSdk.shown

C39_ViewerHandshake ==
  /\ C39_CurrentDocIsLoaded
  /\ C39_PendingOverlayOnItsDoc
  /\ C39_OverlayNotLeftParked

====
